---- MODULE Spec2Model ----
(***************************************************************************)
(* A model of the TWS bridge server (src/tws-bridge-server).               *)
(*                                                                         *)
(* Three parts, each with its own specifications over the shared state:    *)
(*   SpecStream  the Subscription Manager (tws/streaming_manager.py) with  *)
(*               the streaming socket adapter (api/websocket.py);          *)
(*   SpecConn    the Connection Supervisor (tws/connection_manager.py);    *)
(*   SpecFetch   the Bar Fetcher (tws/bar_fetcher.py) behind the /bars     *)
(*               route (api/routes.py).                                    *)
(*                                                                         *)
(* Environment.  The vendor connection object (ibapi EClient/EWrapper) is  *)
(* not part of the repository.  It is modelled by its interface:           *)
(*   - reqHistoricalData / cancelHistoricalData are recorded as calls and  *)
(*     return without raising (the vendor library reports failures through *)
(*     the error callback); the one exception is FetchRequestRaises, the   *)
(*     step of fetch_bars whose try block is written for a raising call;   *)
(*   - the complete bars of a request come before its data-end callback;   *)
(*   - closing the transport invokes connectionClosed as part of the       *)
(*     close, and callbacks of a session stop once its transport is closed;*)
(*   - forming-bar callbacks arrive on the vendor worker thread, at any    *)
(*     moment, also between two statements of a coroutine.                 *)
(* Coroutines of the event loop interleave only at an await that can       *)
(* suspend; subscribe, unsubscribe and unsubscribe_all contain none.       *)
(***************************************************************************)
EXTENDS Integers, Sequences, FiniteSets, TLC

\* ---------------------------------------------------------------- bounds
MaxConns == 2
MaxRequests == 2
MaxUpdates == 2
MaxFetchers == 2
MaxBars == 2
MaxAllocations == 4001
MaxWsAllocations == 1

\* request_id_start default of TWSConnectionManager.__init__
RequestIdStart == 1000

\* request_id_start of the WebSocket instance (initialize_connections)
WsRequestIdStart == 5000

Conns == 1..MaxConns
Symbols == {"X", "Y"}
ReqIds == RequestIdStart..(RequestIdStart + MaxRequests - 1)

\* The subscribe parameters (period, session, what) a client may send.
\* "2m" is a period the streaming bar_size_map does not hold.
Params ==
  { [period |-> "5m", session |-> "rth", what |-> "TRADES"],
    [period |-> "1m", session |-> "rth", what |-> "TRADES"],
    [period |-> "5m", session |-> "all", what |-> "MIDPOINT"],
    [period |-> "2m", session |-> "rth", what |-> "TRADES"] }

\* the parameters used where only the delivery of bars is of interest
DeliverParams == { [period |-> "5m", session |-> "rth", what |-> "TRADES"] }

VARIABLES
  \* StreamingManager
  subscriptions,            \* dict symbol -> StreamingSubscription
  callbacks,                \* keys of the dict symbol -> async callback
  event_loop,               \* TRUE once the loop reference is captured
  request_id_counter,       \* tws_manager._request_id_counter
  \* calls made on the vendor connection object
  reqHistCalls,             \* reqId -> number of reqHistoricalData calls
  cancelCalls,              \* reqId -> number of cancelHistoricalData calls
  calls_under_lock,         \* the call sites reached with a lock held
  vendorLive,               \* the requests made and not cancelled since
  \* event loop
  loop,                     \* the handler running between two vendor-thread steps
  loopQueue,                \* coroutines scheduled by run_coroutine_threadsafe
  running,                  \* broadcast coroutines suspended at a send
  \* ConnectionManager of api/websocket.py
  active_connections,
  ua_invocations,           \* unsubscribe_all calls made for each connection id
  connection_subscriptions, \* dict connection id -> set of symbols
  dictOrder,                \* insertion order of connection_subscriptions
  chan,                     \* each client's socket: new, open, dead, closed
  received,                 \* bar_update messages each client got
  \* vendor
  nextBar,                  \* number of the next forming bar the vendor sends
  \* bookkeeping of what clients were told and are owed
  granted,                  \* (conn, symbol) -> the subscribe response held
  owed                      \* <<conn, symbol, bar>> still to be delivered

streamVars ==
  << subscriptions, callbacks, event_loop, request_id_counter, reqHistCalls,
     cancelCalls, calls_under_lock, vendorLive, loop, loopQueue, running, active_connections, ua_invocations,
     connection_subscriptions, dictOrder, chan, received, nextBar, granted,
     owed >>

\* Connection Supervisor (tws/connection_manager.py)
VARIABLES
  transport,             \* client.isConnected()
  wrapper_is_connected,  \* TWSWrapper.is_connected
  connection_event,      \* TWSWrapper.connection_event is set
  handshakePending,      \* the vendor has a nextValidId to deliver
  should_stop,           \* TWSConnectionManager._should_stop is set
  api_thread_alive,      \* _api_thread is not None and is alive
  monPc,                 \* position of the _reconnect_loop thread
  pc,                    \* position of each caller inside connect()
  result,                \* what connect() returned to each caller
  how,                   \* the return statement connect() left through
  error_slot,            \* the function installed as client.wrapper.error
  lastCallback,          \* the last vendor callback delivered
  disconnect_called      \* disconnect() was called from outside connect()

connVars ==
  << transport, wrapper_is_connected, connection_event, handshakePending,
     should_stop, api_thread_alive, monPc, pc, result, how, error_slot,
     lastCallback, disconnect_called >>

\* Bar Fetcher (tws/bar_fetcher.py) and the /bars route (api/routes.py)
VARIABLES
  requests,               \* BarFetcherWrapper.requests: reqId -> BarFetchRequest
  fetch,                  \* each caller of the /bars route: position and locals
  vendorFetch,            \* the vendor's side of each fetch request issued
  update_slot,            \* the function installed as wrapper.historicalDataUpdate
  ws_request_id_counter   \* _request_id_counter of the WebSocket instance

fetchVars ==
  << requests, fetch, vendorFetch, update_slot, ws_request_id_counter >>

vars == << streamVars, connVars, fetchVars >>

\* ------------------------------------------------------- pure helpers

DictPut(d, k, v) == [x \in DOMAIN d \cup {k} |-> IF x = k THEN v ELSE d[x]]
DictDel(d, k) == [x \in DOMAIN d \ {k} |-> d[x]]

\* bar_size_map.get(period) of StreamingManager.subscribe; "" is None
bar_size_map(period) ==
  CASE period = "1m" -> "1 min"
    [] period = "5m" -> "5 mins"
    [] period = "15m" -> "15 mins"
    [] period = "30m" -> "30 mins"
    [] period = "1h" -> "1 hour"
    [] OTHER -> ""

\* use_rth = 1 if session == "rth" else 0
use_rth(session) == IF session = "rth" THEN 1 ELSE 0

\* what.upper()
what_to_show(what) ==
  CASE what = "trades" -> "TRADES"
    [] what = "midpoint" -> "MIDPOINT"
    [] OTHER -> what

StreamingSubscription(req_id, symbol, period, session, what) ==
  [ req_id |-> req_id, symbol |-> symbol, period |-> period,
    session |-> session, what |-> what, subscribers |-> {},
    last_bar |-> 0, update_count |-> 0 ]

add_subscriber(sub, connection_id) ==
  [sub EXCEPT !.subscribers = @ \cup {connection_id}]

remove_subscriber_Keep(sub, connection_id) == sub
remove_subscriber(sub, connection_id) ==
  [sub EXCEPT !.subscribers = @ \ {connection_id}]

has_subscribers_Always(sub) == TRUE
has_subscribers(sub) == Cardinality(sub.subscribers) > 0

\* the "if symbol in self.subscriptions" test of subscribe
SubscriptionExists_AlwaysNew(symbol, p) == FALSE
SubscriptionExists(symbol, p) == symbol \in DOMAIN subscriptions

\* the counter value after get_next_request_id returned req_id
CounterAfter_NoIncrement(req_id) == req_id
CounterAfter(req_id) == req_id + 1

IssuedIds == {r \in DOMAIN reqHistCalls : reqHistCalls[r] > 0}

Idle == [kind |-> "idle"]

\* The locks the calling thread holds at each call of the vendor client and
\* at the scheduling of a delivery: the "with ...lock:" blocks around the call.
LocksHeldAt(site) ==
  CASE site = "subscribe.reqHistoricalData" -> {}
    [] site = "unsubscribe.cancelHistoricalData" -> {"StreamingManager.lock"}
    [] site = "unsubscribe_all.cancelHistoricalData" -> {"StreamingManager.lock"}
    [] site = "_process_bar_update.run_coroutine_threadsafe" ->
         {"StreamingManager.lock"}
    [] site = "fetch_bars.reqHistoricalData" -> {}
    [] site = "fetch_bars.cancelHistoricalData" -> {}

\* calls_under_lock once the call at site has been made
UnderLock(site) ==
  IF LocksHeldAt(site) # {}
  THEN calls_under_lock \cup {site} ELSE calls_under_lock

\* ------------------------------------------- StreamingManager.subscribe

\* The handler of a "subscribe" message, up to the return of the reuse
\* branch, the ValueError of an unsupported period, or the vendor call.
SubscribeReuse(c, s, p) ==
  /\ loop = Idle
  /\ c \in active_connections
  /\ chan[c] = "open"
  /\ SubscriptionExists(s, p)
  /\ event_loop' = TRUE
  /\ subscriptions' = [subscriptions EXCEPT ![s] = add_subscriber(@, c)]
  \* back in handle_websocket: connection_manager.add_subscription
  /\ connection_subscriptions' =
       [connection_subscriptions EXCEPT ![c] = @ \cup {s}]
  /\ granted' = DictPut(granted, <<c, s>>,
       [ req_id |-> subscriptions[s].req_id, existing |-> TRUE,
         period |-> p.period, session |-> p.session, what |-> p.what ])
  /\ UNCHANGED << callbacks, request_id_counter, reqHistCalls, cancelCalls, calls_under_lock, vendorLive,
                  loop, loopQueue, running, active_connections, ua_invocations, dictOrder,
                  chan, received, nextBar, owed >>
  /\ UNCHANGED << connVars, fetchVars >>

SubscribeUnsupported(c, s, p) ==
  /\ loop = Idle
  /\ c \in active_connections
  /\ chan[c] = "open"
  /\ ~SubscriptionExists(s, p)
  /\ request_id_counter \in ReqIds
  /\ bar_size_map(p.period) = ""
  /\ event_loop' = TRUE
  /\ request_id_counter' = CounterAfter(request_id_counter)
  \* raise ValueError: the handler answers with an error message
  /\ UNCHANGED << subscriptions, callbacks, reqHistCalls, cancelCalls, calls_under_lock, vendorLive, loop,
                  loopQueue, running, active_connections, ua_invocations,
                  connection_subscriptions, dictOrder, chan, received,
                  nextBar, granted, owed >>
  /\ UNCHANGED << connVars, fetchVars >>

SubscribeRequest(c, s, p) ==
  /\ loop = Idle
  /\ c \in active_connections
  /\ chan[c] = "open"
  /\ ~SubscriptionExists(s, p)
  /\ request_id_counter \in ReqIds
  /\ bar_size_map(p.period) # ""
  /\ event_loop' = TRUE
  /\ request_id_counter' = CounterAfter(request_id_counter)
  /\ reqHistCalls' = [reqHistCalls EXCEPT ![request_id_counter] = @ + 1]
  /\ vendorLive' = vendorLive \cup
       {[ reqId |-> request_id_counter, symbol |-> s,
          barSizeSetting |-> bar_size_map(p.period),
          whatToShow |-> what_to_show(p.what),
          useRTH |-> use_rth(p.session), keepUpToDate |-> TRUE ]}
  /\ loop' = [ kind |-> "subscribe", conn |-> c, symbol |-> s,
               period |-> p.period, session |-> p.session, what |-> p.what,
               req_id |-> request_id_counter ]
  /\ calls_under_lock' = UnderLock("subscribe.reqHistoricalData")
  /\ UNCHANGED << subscriptions, callbacks, cancelCalls, loopQueue, running,
                  active_connections, ua_invocations, connection_subscriptions, dictOrder,
                  chan, received, nextBar, granted, owed >>
  /\ UNCHANGED << connVars, fetchVars >>

\* The rest of subscribe after the vendor call: create the subscription,
\* insert it under the lock, return; then add_subscription in the handler.
SubscribeInsert ==
  /\ loop.kind = "subscribe"
  /\ LET sub == add_subscriber(
                  StreamingSubscription(loop.req_id, loop.symbol, loop.period,
                                        loop.session, loop.what), loop.conn)
     IN subscriptions' = DictPut(subscriptions, loop.symbol, sub)
  /\ callbacks' = callbacks \cup {loop.symbol}
  /\ connection_subscriptions' =
       IF loop.conn \in DOMAIN connection_subscriptions
       THEN [connection_subscriptions EXCEPT ![loop.conn] = @ \cup {loop.symbol}]
       ELSE connection_subscriptions
  /\ granted' = DictPut(granted, <<loop.conn, loop.symbol>>,
       [ req_id |-> loop.req_id, existing |-> FALSE, period |-> loop.period,
         session |-> loop.session, what |-> loop.what ])
  /\ loop' = Idle
  /\ UNCHANGED << event_loop, request_id_counter, reqHistCalls, cancelCalls, calls_under_lock, vendorLive,
                  loopQueue, running, active_connections, ua_invocations, dictOrder, chan,
                  received, nextBar, owed >>
  /\ UNCHANGED << connVars, fetchVars >>

\* ----------------------------------------- StreamingManager.unsubscribe

\* the count of cancelHistoricalData calls for a request id after one more
CancelledOnce_NoCall(n) == n
CancelledOnce(n) == n + 1

\* the vendor's live requests after the cancelHistoricalData calls that took
\* the counts from before to after
StillLive(live, before, after) ==
  {q \in live : after[q.reqId] = before[q.reqId]}

\* unsubscribe(symbol, connection_id): the status it returns
unsubscribe_status(s, c) ==
  IF s \notin DOMAIN subscriptions THEN "not_found"
  ELSE IF ~has_subscribers(remove_subscriber(subscriptions[s], c))
       THEN "cancelled"
       ELSE "unsubscribed"

Unsubscribe(c, s) ==
  /\ loop = Idle
  /\ c \in active_connections
  /\ chan[c] = "open"
  /\ LET status == unsubscribe_status(s, c)
     IN /\ subscriptions' =
             CASE status = "not_found" -> subscriptions
               [] status = "cancelled" -> DictDel(subscriptions, s)
               [] OTHER -> [subscriptions EXCEPT ![s] = remove_subscriber(@, c)]
        /\ cancelCalls' =
             IF status = "cancelled"
             THEN [cancelCalls EXCEPT ![subscriptions[s].req_id] = CancelledOnce(@)]
             ELSE cancelCalls
        /\ callbacks' = IF status = "cancelled" THEN callbacks \ {s} ELSE callbacks
        /\ calls_under_lock' =
             IF status = "cancelled"
             THEN UnderLock("unsubscribe.cancelHistoricalData")
             ELSE calls_under_lock
  /\ vendorLive' = StillLive(vendorLive, cancelCalls, cancelCalls')
  \* back in handle_websocket: connection_manager.remove_subscription
  /\ connection_subscriptions' =
       [connection_subscriptions EXCEPT ![c] = @ \ {s}]
  /\ granted' = DictDel(granted, <<c, s>>)
  /\ owed' = {o \in owed : ~(o[1] = c /\ o[2] = s)}
  /\ UNCHANGED << event_loop, request_id_counter, reqHistCalls, loop,
                  loopQueue, running, active_connections, ua_invocations, dictOrder, chan,
                  received, nextBar >>
  /\ UNCHANGED << connVars, fetchVars >>

\* ------------------------------------- StreamingManager.unsubscribe_all

\* the symbols connection_id is removed from, and those cancelled with it
ua_unsubscribed(c) ==
  {s \in DOMAIN subscriptions : c \in subscriptions[s].subscribers}

ua_cancelled_None(c) == {}

ua_cancelled(c) ==
  {s \in ua_unsubscribed(c) :
     ~has_subscribers(remove_subscriber(subscriptions[s], c))}

ua_subscriptions(c) ==
  [s \in DOMAIN subscriptions \ ua_cancelled(c) |->
     remove_subscriber(subscriptions[s], c)]

ua_cancelCalls(c) ==
  [r \in DOMAIN cancelCalls |->
     IF \E s \in ua_cancelled(c) : subscriptions[s].req_id = r
     THEN CancelledOnce(cancelCalls[r])
     ELSE cancelCalls[r]]

ua_callbacks(c) == callbacks \ ua_cancelled(c)

\* the "if connection_id in self.active_connections" test of disconnect
IsActive_Always(c) == TRUE
IsActive(c) == c \in active_connections

\* ConnectionManager.disconnect(connection_id), for an active connection:
\* unsubscribe_all, then both dict entries are deleted.
DisconnectEffect(c) ==
  /\ subscriptions' = ua_subscriptions(c)
  /\ cancelCalls' = ua_cancelCalls(c)
  /\ calls_under_lock' =
       IF ua_cancelled(c) # {}
       THEN UnderLock("unsubscribe_all.cancelHistoricalData")
       ELSE calls_under_lock
  /\ vendorLive' = StillLive(vendorLive, cancelCalls, ua_cancelCalls(c))
  /\ callbacks' = ua_callbacks(c)
  /\ ua_invocations' = [ua_invocations EXCEPT ![c] = @ + 1]
  /\ active_connections' = active_connections \ {c}
  /\ connection_subscriptions' = DictDel(connection_subscriptions, c)
  /\ granted' = [k \in {g \in DOMAIN granted : g[1] # c} |-> granted[k]]

\* ------------------------------------------------ api/websocket.py

\* ConnectionManager.connect: accept, register under a fresh id
WsConnect(c) ==
  /\ loop = Idle
  /\ chan[c] = "new"
  /\ c = Len(dictOrder) + 1     \* ids are fresh: number them by arrival
  /\ chan' = [chan EXCEPT ![c] = "open"]
  /\ active_connections' = active_connections \cup {c}
  /\ UNCHANGED ua_invocations
  /\ connection_subscriptions' = DictPut(connection_subscriptions, c, {})
  /\ dictOrder' = Append(dictOrder, c)
  /\ UNCHANGED << subscriptions, callbacks, event_loop, request_id_counter,
                  reqHistCalls, cancelCalls, calls_under_lock, vendorLive, loop, loopQueue, running,
                  received, nextBar, granted, owed >>
  /\ UNCHANGED << connVars, fetchVars >>

\* the client goes away; the server has not noticed yet
ClientGone(c) ==
  /\ chan[c] = "open"
  /\ chan' = [chan EXCEPT ![c] = "dead"]
  /\ UNCHANGED << subscriptions, callbacks, event_loop, request_id_counter,
                  reqHistCalls, cancelCalls, calls_under_lock, vendorLive, loop, loopQueue, running,
                  active_connections, ua_invocations, connection_subscriptions, dictOrder,
                  received, nextBar, granted, owed >>
  /\ UNCHANGED << connVars, fetchVars >>

\* handle_websocket leaves its message loop (WebSocketDisconnect or another
\* exception) and calls connection_manager.disconnect
WsDisconnect(c) ==
  /\ loop = Idle
  /\ chan[c] = "dead"
  /\ chan' = [chan EXCEPT ![c] = "closed"]
  /\ received' = [received EXCEPT ![c] = << >>]
  /\ IF IsActive(c)
     THEN /\ DisconnectEffect(c)
          /\ owed' = {o \in owed : o[1] # c}
     ELSE UNCHANGED << subscriptions, cancelCalls, calls_under_lock, vendorLive, callbacks,
                       active_connections, ua_invocations, connection_subscriptions, granted,
                       owed >>
  /\ UNCHANGED << event_loop, request_id_counter, reqHistCalls, loop,
                  loopQueue, running, dictOrder, nextBar >>
  /\ UNCHANGED << connVars, fetchVars >>

\* handle_websocket leaves its message loop on an exception other than
\* WebSocketDisconnect (a message that is not JSON, a failing reply) while
\* the client is still there, and calls connection_manager.disconnect; the
\* socket is closed when the handler returns
WsHandlerError(c) ==
  /\ loop = Idle
  /\ chan[c] = "open"
  /\ chan' = [chan EXCEPT ![c] = "closed"]
  /\ received' = [received EXCEPT ![c] = << >>]
  /\ IF IsActive(c)
     THEN /\ DisconnectEffect(c)
          /\ owed' = {o \in owed : o[1] # c}
     ELSE UNCHANGED << subscriptions, cancelCalls, calls_under_lock, vendorLive, callbacks,
                       active_connections, ua_invocations,
                       connection_subscriptions, granted, owed >>
  /\ UNCHANGED << event_loop, request_id_counter, reqHistCalls, loop,
                  loopQueue, running, dictOrder, nextBar >>
  /\ UNCHANGED << connVars, fetchVars >>

\* ------------------------- StreamingManager._handle_bar_update (vendor thread)

\* the subscriptions whose req_id is reqId (the loop over the dict values)
FindByReqId(reqId) ==
  {s \in DOMAIN subscriptions : subscriptions[s].req_id = reqId}

\* the forming bar is written to the subscription found
RecordBar_NoUpdate(sub, bar) == sub
RecordBar(sub, bar) ==
  [sub EXCEPT !.last_bar = bar, !.update_count = @ + 1]

\* a forming-bar callback for a request id nothing in the table carries
BarUpdateUnknown(r) ==
  /\ nextBar <= MaxUpdates
  /\ r \in IssuedIds
  /\ FindByReqId(r) = {}
  /\ nextBar' = nextBar + 1
  /\ UNCHANGED << subscriptions, callbacks, event_loop, request_id_counter,
                  reqHistCalls, cancelCalls, calls_under_lock, vendorLive, loop, loopQueue, running,
                  active_connections, ua_invocations, connection_subscriptions, dictOrder,
                  chan, received, granted, owed >>
  /\ UNCHANGED << connVars, fetchVars >>

\* a forming-bar callback for the request id of a subscription
BarUpdate(r) ==
  /\ nextBar <= MaxUpdates
  /\ r \in IssuedIds
  /\ \E s \in FindByReqId(r) :
       /\ subscriptions' = [subscriptions EXCEPT ![s] = RecordBar(@, nextBar)]
       /\ IF s \in callbacks /\ event_loop
          THEN \* asyncio.run_coroutine_threadsafe(callback(symbol, bar))
               /\ loopQueue' = Append(loopQueue, [sym |-> s, bar |-> nextBar])
               /\ calls_under_lock' =
                    UnderLock("_process_bar_update.run_coroutine_threadsafe")
               /\ owed' = owed \cup
                    {<<c, s, nextBar>> : c \in subscriptions[s].subscribers}
          ELSE UNCHANGED << loopQueue, owed, calls_under_lock >>
  /\ nextBar' = nextBar + 1
  /\ UNCHANGED << callbacks, event_loop, request_id_counter, reqHistCalls,
                  cancelCalls, vendorLive, loop, running, active_connections, ua_invocations,
                  connection_subscriptions, dictOrder, chan, received,
                  granted >>
  /\ UNCHANGED << connVars, fetchVars >>

\* ------------------- ConnectionManager.broadcast_to_symbol_subscribers

\* len(connection_subscriptions), which the dict iterator checks at each step
DictSize == Cardinality(DOMAIN connection_subscriptions)

\* the next entry after position pos whose set of symbols holds sym; 0 if none
NextEntry(sym, pos) ==
  LET hits == {j \in (pos + 1)..Len(dictOrder) :
                 /\ dictOrder[j] \in DOMAIN connection_subscriptions
                 /\ sym \in connection_subscriptions[dictOrder[j]]}
  IN IF hits = {} THEN 0 ELSE CHOOSE j \in hits : \A k \in hits : j <= k

\* One run of the coroutine t = [sym, bar, pos, size] from its last
\* suspension: the iterator steps up to the next subscribed connection and
\* send_message awaits websocket.send_json, where it may be suspended again.
\* rest is the set of the other suspended coroutines.
Segment(t, rest) ==
  IF DictSize # t.size
  THEN \* RuntimeError: dictionary changed size during iteration
       /\ running' = rest
       /\ UNCHANGED << subscriptions, cancelCalls, calls_under_lock, vendorLive, callbacks,
                       active_connections, ua_invocations, connection_subscriptions, granted,
                       received, owed >>
  ELSE LET j == NextEntry(t.sym, t.pos)
       IN IF j = 0
          THEN \* the iteration ends
               /\ running' = rest
               /\ UNCHANGED << subscriptions, cancelCalls, calls_under_lock, vendorLive, callbacks,
                               active_connections, ua_invocations, connection_subscriptions,
                               granted, received, owed >>
          ELSE LET c == dictOrder[j]
               IN IF chan[c] = "open"
                  THEN /\ running' = rest \cup {[t EXCEPT !.pos = j]}
                       /\ received' =
                            [received EXCEPT ![c] = Append(@, <<t.sym, t.bar>>)]
                       /\ owed' = owed \ {<<c, t.sym, t.bar>>}
                       /\ UNCHANGED << subscriptions, cancelCalls, calls_under_lock, vendorLive, callbacks,
                                       active_connections, ua_invocations,
                                       connection_subscriptions, granted >>
                  ELSE \* send_json raises: send_message calls disconnect,
                       \* which deletes c's entry; the iterator's next
                       \* step then raises RuntimeError (the size changed)
                       /\ running' = rest
                       /\ DisconnectEffect(c)
                       /\ owed' = {o \in owed : o[1] # c}
                       /\ UNCHANGED received

\* the loop starts the oldest scheduled coroutine
StartTask ==
  /\ loop = Idle
  /\ loopQueue # << >>
  /\ loopQueue' = Tail(loopQueue)
  /\ Segment([ sym |-> Head(loopQueue).sym, bar |-> Head(loopQueue).bar,
               pos |-> 0, size |-> DictSize ], running)
  /\ UNCHANGED << event_loop, request_id_counter, reqHistCalls, loop,
                  dictOrder, chan, nextBar >>
  /\ UNCHANGED << connVars, fetchVars >>

\* the loop resumes a suspended coroutine
ResumeTask(t) ==
  /\ loop = Idle
  /\ t \in running
  /\ Segment(t, running \ {t})
  /\ UNCHANGED << event_loop, request_id_counter, reqHistCalls, loop,
                  loopQueue, dictOrder, chan, nextBar >>
  /\ UNCHANGED << connVars, fetchVars >>

\* ======================================================================
\* Connection Supervisor (tws/connection_manager.py)
\* ======================================================================

\* "req" is the event-loop thread (lifespan and the HTTP routes, which run
\* one at a time); "mon" is the _reconnect_loop thread.
Callers == {"req", "mon"}

SessionLossCodes == {502, 504, 1100, 1300}
ErrorCodes == SessionLossCodes \cup {2104, 2158, 162}

\* TWSConnectionManager.is_connected
IsConnected == transport /\ wrapper_is_connected

\* TWSWrapper.error: whether the code clears is_connected and the event
TWSWrapper_error_No1300(code) == code \in {502, 504, 1100}
TWSWrapper_error(code) == code \in SessionLossCodes

\* TWSWrapper.error: whether the code is only logged at debug level (the
\* branches for 2104, 2106 and errorCode >= 2000)
TWSWrapper_informational(code) ==
  /\ ~TWSWrapper_error(code)
  /\ (code = 2104 \/ code = 2106 \/ code >= 2000)

\* BarFetcherWrapper.error, as far as the session goes: it calls
\* self.original_error, the TWSWrapper.error saved before the replacement
BarFetcherWrapper_error(code) == TWSWrapper_error(code)

Callback(kind, code) == [kind |-> kind, code |-> code]

\* the callback client.disconnect() makes when it closes an open transport
ClosedCallback ==
  IF transport THEN Callback("connectionClosed", 0) ELSE lastCallback

\* ------------------------------------------------ vendor callbacks

nextValidId ==
  /\ transport
  /\ handshakePending
  /\ api_thread_alive
  /\ wrapper_is_connected' = TRUE
  /\ connection_event' = TRUE
  /\ handshakePending' = FALSE
  \* connection_event.set() wakes every caller blocked in wait()
  /\ pc' = [c \in Callers |-> IF pc[c] = "wait" THEN "woken" ELSE pc[c]]
  /\ lastCallback' = Callback("nextValidId", 0)
  /\ UNCHANGED << transport, should_stop, api_thread_alive, monPc, result,
                  how, error_slot, disconnect_called, streamVars, fetchVars >>

\* client.wrapper.error(reqId, code, ...): whether it clears the handshake state
ErrorClears(code) ==
  IF error_slot = "BarFetcherWrapper"
  THEN BarFetcherWrapper_error(code)
  ELSE TWSWrapper_error(code)

error(code) ==
  /\ wrapper_is_connected' = (wrapper_is_connected /\ ~ErrorClears(code))
  /\ connection_event' = (connection_event /\ ~ErrorClears(code))
  /\ lastCallback' = Callback("error", code)
  /\ UNCHANGED << transport, handshakePending, should_stop, api_thread_alive,
                  monPc, pc, result, how, error_slot, disconnect_called,
                  streamVars, fetchVars >>

\* the peer closes the socket: the vendor library closes the transport and
\* calls connectionClosed
connectionClosed ==
  /\ transport
  /\ transport' = FALSE
  /\ handshakePending' = FALSE
  /\ wrapper_is_connected' = FALSE
  /\ connection_event' = FALSE
  /\ lastCallback' = Callback("connectionClosed", 0)
  /\ UNCHANGED << should_stop, api_thread_alive, monPc, pc, result, how,
                  error_slot, disconnect_called, streamVars, fetchVars >>

\* _run_api_loop: client.run() returns once the transport is closed
ApiThreadExit ==
  /\ api_thread_alive
  /\ ~transport
  /\ api_thread_alive' = FALSE
  /\ UNCHANGED << transport, wrapper_is_connected, connection_event,
                  handshakePending, should_stop, monPc, pc, result, how,
                  error_slot, lastCallback, disconnect_called, streamVars, fetchVars >>

\* BarFetcher.__init__ replaces client.wrapper.error
BarFetcherInit ==
  /\ error_slot = "TWSWrapper"
  /\ error_slot' = "BarFetcherWrapper"
  /\ UNCHANGED << transport, wrapper_is_connected, connection_event,
                  handshakePending, should_stop, api_thread_alive, monPc, pc,
                  result, how, lastCallback, disconnect_called, streamVars, fetchVars >>

\* --------------------------------------- TWSConnectionManager.connect

\* the test of the first "if" of connect()
AlreadyConnected_Never == FALSE
AlreadyConnected == transport /\ wrapper_is_connected

\* what connect() hands its caller from the "except Exception" handler
ExceptResult_Reraise == "raised"
ExceptResult == "false"

\* a caller on the event-loop thread enters connect()
ConnectCall ==
  /\ pc["req"] \in {"idle", "done"}
  /\ pc' = [pc EXCEPT !["req"] = "check"]
  /\ UNCHANGED << transport, wrapper_is_connected, connection_event,
                  handshakePending, should_stop, api_thread_alive, monPc,
                  result, how, error_slot, lastCallback, disconnect_called,
                  streamVars, fetchVars >>

\* "Already connected": return True
ConnectAlready(c) ==
  /\ pc[c] = "check"
  /\ AlreadyConnected
  /\ pc' = [pc EXCEPT ![c] = "done"]
  /\ result' = [result EXCEPT ![c] = "true"]
  /\ how' = [how EXCEPT ![c] = "already"]
  /\ UNCHANGED << transport, wrapper_is_connected, connection_event,
                  handshakePending, should_stop, api_thread_alive, monPc,
                  error_slot, lastCallback, disconnect_called, streamVars, fetchVars >>

\* client connected but wrapper not: client.disconnect(), sleep(1)
ConnectCleanup(c) ==
  /\ pc[c] = "check"
  /\ ~AlreadyConnected
  /\ transport /\ ~wrapper_is_connected
  /\ transport' = FALSE
  /\ handshakePending' = FALSE
  /\ wrapper_is_connected' = FALSE
  /\ connection_event' = FALSE
  /\ lastCallback' = ClosedCallback
  /\ pc' = [pc EXCEPT ![c] = "open"]
  /\ UNCHANGED << should_stop, api_thread_alive, monPc, result, how,
                  error_slot, disconnect_called, streamVars, fetchVars >>

\* neither "if" applies
ConnectProceed(c) ==
  /\ pc[c] = "check"
  /\ ~AlreadyConnected
  /\ ~(transport /\ ~wrapper_is_connected)
  /\ pc' = [pc EXCEPT ![c] = "open"]
  /\ UNCHANGED << transport, wrapper_is_connected, connection_event,
                  handshakePending, should_stop, api_thread_alive, monPc,
                  result, how, error_slot, lastCallback, disconnect_called,
                  streamVars, fetchVars >>

\* client.connect opens the transport; the API thread is started if none
\* is alive; the caller goes on to wait for the event
ConnectOpen(c) ==
  /\ pc[c] = "open"
  /\ transport' = TRUE
  /\ handshakePending' = TRUE
  /\ api_thread_alive' = TRUE
  /\ pc' = [pc EXCEPT ![c] = "wait"]
  /\ UNCHANGED << wrapper_is_connected, connection_event, should_stop, monPc,
                  result, how, error_slot, lastCallback, disconnect_called,
                  streamVars, fetchVars >>

\* client.connect is refused: the vendor library reports error 502 through
\* the error callback, leaves the transport closed and returns
ConnectRefused(c) ==
  /\ pc[c] = "open"
  /\ ~transport
  /\ wrapper_is_connected' = (wrapper_is_connected /\ ~ErrorClears(502))
  /\ connection_event' = (connection_event /\ ~ErrorClears(502))
  /\ lastCallback' = Callback("error", 502)
  /\ api_thread_alive' = TRUE
  /\ pc' = [pc EXCEPT ![c] = "wait"]
  /\ UNCHANGED << transport, handshakePending, should_stop, monPc, result,
                  how, error_slot, disconnect_called, streamVars, fetchVars >>

\* client.connect raises: "except Exception" logs and returns
ConnectRaises(c) ==
  /\ pc[c] = "open"
  /\ ~transport
  /\ pc' = [pc EXCEPT ![c] = "done"]
  /\ result' = [result EXCEPT ![c] = ExceptResult]
  /\ how' = [how EXCEPT ![c] = "except"]
  /\ UNCHANGED << transport, wrapper_is_connected, connection_event,
                  handshakePending, should_stop, api_thread_alive, monPc,
                  error_slot, lastCallback, disconnect_called, streamVars, fetchVars >>

\* connection_event.wait returned True: reqMarketDataType, the monitor is
\* started unless its thread is alive, return True
ConnectConfirmed(c) ==
  /\ \/ pc[c] = "woken"
     \/ pc[c] = "wait" /\ connection_event
  /\ monPc' = IF monPc \in {"none", "exited"} THEN "while" ELSE monPc
  /\ pc' = [pc EXCEPT ![c] = "done"]
  /\ result' = [result EXCEPT ![c] = "true"]
  /\ how' = [how EXCEPT ![c] = "handshake"]
  /\ UNCHANGED << transport, wrapper_is_connected, connection_event,
                  handshakePending, should_stop, api_thread_alive,
                  error_slot, lastCallback, disconnect_called, streamVars, fetchVars >>

\* connection_event.wait timed out: self.disconnect(), return False
ConnectTimeout(c) ==
  /\ pc[c] = "wait"
  /\ ~connection_event
  /\ should_stop' = TRUE
  /\ transport' = FALSE
  /\ handshakePending' = FALSE
  /\ wrapper_is_connected' = FALSE
  /\ connection_event' = FALSE
  /\ lastCallback' = ClosedCallback
  /\ pc' = [pc EXCEPT ![c] = "done"]
  /\ result' = [result EXCEPT ![c] = "false"]
  /\ how' = [how EXCEPT ![c] = "timeout"]
  /\ UNCHANGED << api_thread_alive, monPc, error_slot, disconnect_called,
                  streamVars, fetchVars >>

\* ------------------------------------ TWSConnectionManager.disconnect

\* disconnect() called by the shutdown of lifespan or the /disconnect route
Disconnect ==
  /\ pc["req"] \in {"idle", "done"}
  /\ should_stop' = TRUE
  /\ transport' = FALSE
  /\ handshakePending' = FALSE
  /\ wrapper_is_connected' = FALSE
  /\ connection_event' = FALSE
  /\ lastCallback' = ClosedCallback
  /\ disconnect_called' = TRUE
  /\ UNCHANGED << api_thread_alive, monPc, pc, result, how, error_slot,
                  streamVars, fetchVars >>

\* --------------------------------- TWSConnectionManager._reconnect_loop

\* the test of "if not self.is_connected()"
ReconnectNeeded_TransportOnly == ~transport
ReconnectNeeded == ~IsConnected

\* while not self._should_stop.is_set()
MonitorWhile ==
  /\ monPc = "while"
  /\ monPc' = IF should_stop THEN "exited" ELSE "tick"
  /\ UNCHANGED << transport, wrapper_is_connected, connection_event,
                  handshakePending, should_stop, api_thread_alive, pc, result,
                  how, error_slot, lastCallback, disconnect_called,
                  streamVars, fetchVars >>

\* connected: nothing to do this round
MonitorHealthy ==
  /\ monPc = "tick"
  /\ ~ReconnectNeeded
  /\ monPc' = "sleep"
  /\ UNCHANGED << transport, wrapper_is_connected, connection_event,
                  handshakePending, should_stop, api_thread_alive, pc, result,
                  how, error_slot, lastCallback, disconnect_called,
                  streamVars, fetchVars >>

\* not connected: client.disconnect(), clear the handshake state, sleep(2),
\* then call connect()
MonitorTeardown ==
  /\ monPc = "tick"
  /\ ReconnectNeeded
  /\ transport' = FALSE
  /\ handshakePending' = FALSE
  /\ wrapper_is_connected' = FALSE
  /\ connection_event' = FALSE
  /\ lastCallback' = ClosedCallback
  /\ monPc' = "connect"
  /\ pc' = [pc EXCEPT !["mon"] = "check"]
  /\ UNCHANGED << should_stop, api_thread_alive, result, how, error_slot,
                  disconnect_called, streamVars, fetchVars >>

\* connect() returned to the monitor, which logs the outcome
MonitorAttempted ==
  /\ monPc = "connect"
  /\ pc["mon"] = "done"
  /\ monPc' = "sleep"
  /\ pc' = [pc EXCEPT !["mon"] = "idle"]
  /\ UNCHANGED << transport, wrapper_is_connected, connection_event,
                  handshakePending, should_stop, api_thread_alive, result,
                  how, error_slot, lastCallback, disconnect_called,
                  streamVars, fetchVars >>

\* self._should_stop.wait(timeout=10) returns
MonitorSleep ==
  /\ monPc = "sleep"
  /\ monPc' = "while"
  /\ UNCHANGED << transport, wrapper_is_connected, connection_event,
                  handshakePending, should_stop, api_thread_alive, pc, result,
                  how, error_slot, lastCallback, disconnect_called,
                  streamVars, fetchVars >>

\* ======================================================================
\* Bar Fetcher (tws/bar_fetcher.py) and the /bars route (api/routes.py)
\* ======================================================================

Fetchers == 1..MaxFetchers

\* the periods a caller may send: "7m" is one the fetch bar_size_map does
\* not hold, "2m" one that only the fetch bar_size_map holds
FetchPeriods == {"5m", "2m", "7m"}

\* the bar the k-th forming-bar callback of a request carries; complete
\* bars are 1, 2, ...
FormingBar(k) == 0 - k

\* bar_size_map.get(period) of BarFetcher.fetch_bars, "" for None
fetch_bar_size_map(period) ==
  CASE period = "1m" -> "1 min"
    [] period = "2m" -> "2 mins"
    [] period = "3m" -> "3 mins"
    [] period = "5m" -> "5 mins"
    [] period = "10m" -> "10 mins"
    [] period = "15m" -> "15 mins"
    [] period = "30m" -> "30 mins"
    [] period = "1h" -> "1 hour"
    [] period = "2h" -> "2 hours"
    [] period = "4h" -> "4 hours"
    [] period = "1d" -> "1 day"
    [] period = "1w" -> "1 week"
    [] period = "1M" -> "1 month"
    [] OTHER -> ""

\* the codes BarFetcherWrapper.error does not hold against a request
InformationalCodes == {2104, 2106, 2158, 2174, 2176}

\* the error codes the vendor sends in the fetch model
FetchErrorCodes == {162, 2104, 2107, 1100}

\* BarFetchRequest.__init__; error 0 stands for None
BarFetchRequest(req_id, include_forming) ==
  [ req_id |-> req_id, include_forming |-> include_forming, bars |-> << >>,
    is_complete |-> FALSE, error |-> 0 ]

add_bar_Drop(req, bar) == req
add_bar(req, bar) == [req EXCEPT !.bars = Append(@, bar)]

update_last_bar(req, bar) ==
  IF req.bars # << >>
  THEN [req EXCEPT !.bars = [@ EXCEPT ![Len(@)] = bar]]
  ELSE [req EXCEPT !.bars = Append(@, bar)]

mark_complete(req) == [req EXCEPT !.is_complete = TRUE]

mark_error(req, code) == [req EXCEPT !.error = code, !.is_complete = TRUE]

\* a caller that is not inside the route
IdleFetch ==
  [ pc |-> "idle", period |-> "", include_forming |-> FALSE, req_id |-> 0,
    exc |-> "none", detail |-> 0, status |-> 0, bars |-> << >> ]

\* the except clauses of the route: the status of the HTTPException raised
RouteStatus_All500(exc) == 500
RouteStatus(exc) ==
  CASE exc = "TimeoutError" -> 504
    [] exc = "ValueError" -> 400
    [] exc = "RuntimeError" -> 500
    [] OTHER -> 500

\* the route is left with an exception raised inside its try block
RouteRaised(f, exc, detail) ==
  [fetch[f] EXCEPT !.pc = "done", !.exc = exc, !.detail = detail,
                   !.status = RouteStatus(exc), !.bars = << >>]

\* ------------------------------------------------ the /bars route

\* POST /bars: the route tests is_connected().  The vendor's side of the
\* requests that are no longer registered is dropped from the record here:
\* their callbacks find no request and do nothing.
RouteFetchBars(f, period, forming) ==
  /\ fetch[f].pc \in {"idle", "done"}
  /\ fetch' = [fetch EXCEPT ![f] =
       [IdleFetch EXCEPT !.pc = IF IsConnected THEN "fetch_bars" ELSE "connect",
                         !.period = period, !.include_forming = forming]]
  /\ vendorFetch' =
       [r \in DOMAIN vendorFetch \cap DOMAIN requests |-> vendorFetch[r]]
  /\ UNCHANGED << requests, update_slot, ws_request_id_counter >>
  /\ UNCHANGED << streamVars, connVars >>

\* get_http_connection().connect() returned True: the session is up
RouteConnected(f) ==
  /\ fetch[f].pc = "connect"
  /\ transport' = TRUE
  /\ wrapper_is_connected' = TRUE
  /\ connection_event' = TRUE
  /\ handshakePending' = FALSE
  /\ api_thread_alive' = TRUE
  /\ lastCallback' = Callback("nextValidId", 0)
  /\ fetch' = [fetch EXCEPT ![f].pc = "fetch_bars"]
  /\ UNCHANGED << should_stop, monPc, pc, result, how, error_slot,
                  disconnect_called >>
  /\ UNCHANGED << requests, vendorFetch, update_slot, ws_request_id_counter >>
  /\ UNCHANGED streamVars

\* connect() returned False: HTTPException(503) is raised inside the try
\* block, and the except Exception clause answers it
RouteConnectFailed(f) ==
  /\ fetch[f].pc = "connect"
  /\ transport' = FALSE
  /\ wrapper_is_connected' = FALSE
  /\ connection_event' = FALSE
  /\ handshakePending' = FALSE
  /\ lastCallback' = ClosedCallback
  /\ fetch' = [fetch EXCEPT ![f] = RouteRaised(f, "HTTPException", 503)]
  /\ UNCHANGED << should_stop, api_thread_alive, monPc, pc, result, how,
                  error_slot, disconnect_called >>
  /\ UNCHANGED << requests, vendorFetch, update_slot, ws_request_id_counter >>
  /\ UNCHANGED streamVars

\* ------------------------------------------- BarFetcher.fetch_bars

\* "if not self.tws_connection.is_connected(): raise RuntimeError"
FetchNotConnected(f) ==
  /\ fetch[f].pc = "fetch_bars"
  /\ ~IsConnected
  /\ fetch' = [fetch EXCEPT ![f] = RouteRaised(f, "RuntimeError", 0)]
  /\ UNCHANGED << requests, vendorFetch, update_slot, ws_request_id_counter >>
  /\ UNCHANGED << streamVars, connVars >>

\* "if not bar_size: raise ValueError"
FetchUnsupported(f) ==
  /\ fetch[f].pc = "fetch_bars"
  /\ IsConnected
  /\ fetch_bar_size_map(fetch[f].period) = ""
  /\ fetch' = [fetch EXCEPT ![f] = RouteRaised(f, "ValueError", 0)]
  /\ UNCHANGED << requests, vendorFetch, update_slot, ws_request_id_counter >>
  /\ UNCHANGED << streamVars, connVars >>

\* get_next_request_id(), BarFetchRequest(...), register_request(...)
FetchRegister(f) ==
  /\ fetch[f].pc = "fetch_bars"
  /\ IsConnected
  /\ fetch_bar_size_map(fetch[f].period) # ""
  /\ request_id_counter \in ReqIds
  /\ request_id_counter' = CounterAfter(request_id_counter)
  /\ requests' = DictPut(requests, request_id_counter,
       BarFetchRequest(request_id_counter, fetch[f].include_forming))
  /\ fetch' = [fetch EXCEPT ![f].pc = "registered",
                            ![f].req_id = request_id_counter]
  /\ UNCHANGED << vendorFetch, update_slot, ws_request_id_counter >>
  /\ UNCHANGED << subscriptions, callbacks, event_loop, reqHistCalls,
                  cancelCalls, calls_under_lock, vendorLive, loop, loopQueue, running,
                  active_connections, ua_invocations, connection_subscriptions, dictOrder,
                  chan, received, nextBar, granted, owed >>
  /\ UNCHANGED connVars

\* client.reqHistoricalData(reqId, ..., barSizeSetting, ..., keepUpToDate)
FetchRequest(f) ==
  /\ fetch[f].pc = "registered"
  /\ reqHistCalls' = [reqHistCalls EXCEPT ![fetch[f].req_id] = @ + 1]
  /\ vendorFetch' = DictPut(vendorFetch, fetch[f].req_id,
       [ barSizeSetting |-> fetch_bar_size_map(fetch[f].period),
         keepUpToDate |-> fetch[f].include_forming,
         delivered |-> << >>, ended |-> FALSE, attributed |-> 0,
         updates |-> 0 ])
  /\ fetch' = [fetch EXCEPT ![f].pc = "wait"]
  /\ calls_under_lock' = UnderLock("fetch_bars.reqHistoricalData")
  /\ UNCHANGED << requests, update_slot, ws_request_id_counter >>
  /\ UNCHANGED << subscriptions, callbacks, event_loop, request_id_counter,
                  cancelCalls, vendorLive, loop, loopQueue, running,
                  active_connections, ua_invocations, connection_subscriptions, dictOrder,
                  chan, received, nextBar, granted, owed >>
  /\ UNCHANGED connVars

\* the finally clause: cancelHistoricalData if include_forming
FinallyCancel_Never(calls, req_id, include_forming) == calls
FinallyCancel(calls, req_id, include_forming) ==
  IF include_forming
  THEN [calls EXCEPT ![req_id] = CancelledOnce(@)]
  ELSE calls

\* the finally clause: unregister_request(req_id)
unregister_request_Keep(reqs, req_id) == reqs
unregister_request(reqs, req_id) ==
  IF req_id \in DOMAIN reqs THEN DictDel(reqs, req_id) ELSE reqs

\* the vendor call raises (the socket fails at the send): the finally
\* clause runs and the exception reaches the except Exception clause
FetchRequestRaises(f) ==
  /\ fetch[f].pc = "registered"
  /\ cancelCalls' =
       FinallyCancel(cancelCalls, fetch[f].req_id, fetch[f].include_forming)
  /\ calls_under_lock' =
       IF fetch[f].include_forming
       THEN UnderLock("fetch_bars.cancelHistoricalData")
       ELSE calls_under_lock
  /\ requests' = unregister_request(requests, fetch[f].req_id)
  /\ fetch' = [fetch EXCEPT ![f] = RouteRaised(f, "OSError", 0)]
  /\ UNCHANGED << vendorFetch, update_slot, ws_request_id_counter >>
  /\ UNCHANGED << subscriptions, callbacks, event_loop, request_id_counter,
                  reqHistCalls, vendorLive, loop, loopQueue, running,
                  active_connections, ua_invocations, connection_subscriptions, dictOrder,
                  chan, received, nextBar, granted, owed >>
  /\ UNCHANGED connVars

\* what follows request.wait(timeout): the exception raised, "none" for
\* the return of the bars
WaitOutcome_IgnoreError(req) ==
  IF ~req.is_complete THEN "TimeoutError" ELSE "none"
WaitOutcome(req) ==
  IF ~req.is_complete THEN "TimeoutError"
  ELSE IF req.error # 0 THEN "RuntimeError"
  ELSE "none"

\* request.wait(timeout) returns, at completion or when the timeout has
\* elapsed; the bars are returned or the exception raised through the
\* finally clause, and the route answers
FetchReturn(f) ==
  /\ fetch[f].pc = "wait"
  /\ LET req == requests[fetch[f].req_id]
         exc == WaitOutcome(req)
     IN fetch' = [fetch EXCEPT ![f] =
          IF exc = "none"
          THEN [@ EXCEPT !.pc = "done", !.status = 200, !.bars = req.bars]
          ELSE RouteRaised(f, exc, req.error)]
  /\ cancelCalls' =
       FinallyCancel(cancelCalls, fetch[f].req_id, fetch[f].include_forming)
  /\ calls_under_lock' =
       IF fetch[f].include_forming
       THEN UnderLock("fetch_bars.cancelHistoricalData")
       ELSE calls_under_lock
  /\ requests' = unregister_request(requests, fetch[f].req_id)
  /\ UNCHANGED << vendorFetch, update_slot, ws_request_id_counter >>
  /\ UNCHANGED << subscriptions, callbacks, event_loop, request_id_counter,
                  reqHistCalls, vendorLive, loop, loopQueue, running,
                  active_connections, ua_invocations, connection_subscriptions, dictOrder,
                  chan, received, nextBar, granted, owed >>
  /\ UNCHANGED connVars

\* --------------------------- BarFetcherWrapper callbacks (vendor thread)

\* self.requests.get(reqId) of the callbacks: the registered requests the
\* callback goes on to change
requests_get_Any(reqId) == DOMAIN requests
requests_get(reqId) == IF reqId \in DOMAIN requests THEN {reqId} ELSE {}

\* historicalData(reqId, bar): the next complete bar of a request; with
\* no request registered under reqId the callback does nothing
historicalData(r) ==
  /\ transport
  /\ r \in DOMAIN vendorFetch
  /\ IF r \in DOMAIN requests
     THEN /\ ~vendorFetch[r].ended
          /\ Len(vendorFetch[r].delivered) < MaxBars
          /\ LET bar == Len(vendorFetch[r].delivered) + 1
             IN /\ vendorFetch' =
                     [vendorFetch EXCEPT ![r].delivered = Append(@, bar)]
                /\ requests' =
                     [q \in DOMAIN requests |->
                        IF q \in requests_get(r)
                        THEN add_bar(requests[q], bar) ELSE requests[q]]
     ELSE UNCHANGED << vendorFetch, requests >>
  /\ UNCHANGED << fetch, update_slot, ws_request_id_counter >>
  /\ UNCHANGED << streamVars, connVars >>

\* historicalDataEnd(reqId, start, end); with no request registered under
\* reqId the callback does nothing
historicalDataEnd(r) ==
  /\ transport
  /\ r \in DOMAIN vendorFetch
  /\ IF r \in DOMAIN requests
     THEN /\ ~vendorFetch[r].ended
          /\ vendorFetch' = [vendorFetch EXCEPT ![r].ended = TRUE]
          /\ requests' =
               [q \in DOMAIN requests |->
                  IF q \in requests_get(r)
                  THEN mark_complete(requests[q]) ELSE requests[q]]
     ELSE UNCHANGED << vendorFetch, requests >>
  /\ UNCHANGED << fetch, update_slot, ws_request_id_counter >>
  /\ UNCHANGED << streamVars, connVars >>

\* the vendor has a forming-bar callback for request r: those of a
\* keepUpToDate request follow its data-end callback
FormingDue(r) ==
  /\ transport
  /\ r \in DOMAIN vendorFetch
  /\ vendorFetch[r].keepUpToDate => vendorFetch[r].ended
  /\ r \in DOMAIN requests => vendorFetch[r].updates < MaxUpdates

\* the record of the forming-bar callbacks made while r was registered
FormingSeen(r) ==
  IF r \in DOMAIN requests
  THEN [vendorFetch EXCEPT ![r].updates = @ + 1]
  ELSE vendorFetch

\* BarFetcherWrapper.historicalDataUpdate(reqId, bar), while it is the
\* function installed on the wrapper
historicalDataUpdate(r) ==
  /\ FormingDue(r)
  /\ update_slot = "BarFetcherWrapper"
  /\ requests' = IF r \in DOMAIN requests /\ requests[r].include_forming
                 THEN [requests EXCEPT ![r] =
                         update_last_bar(@, FormingBar(vendorFetch[r].updates + 1))]
                 ELSE requests
  /\ vendorFetch' = FormingSeen(r)
  /\ UNCHANGED << fetch, update_slot, ws_request_id_counter >>
  /\ UNCHANGED << streamVars, connVars >>

\* StreamingManager._handle_bar_update(reqId, bar) for the id of a fetch,
\* once StreamingManager.__init__ has installed it on the wrapper: no
\* Subscription carries the id, and BarFetcherWrapper is not called
StreamingHandlesFetchUpdate(r) ==
  /\ FormingDue(r)
  /\ update_slot = "StreamingManager"
  /\ FindByReqId(r) = {}
  /\ vendorFetch' = FormingSeen(r)
  /\ UNCHANGED << requests, fetch, update_slot, ws_request_id_counter >>
  /\ UNCHANGED << streamVars, connVars >>

\* whether BarFetcherWrapper.error holds the code against the request
Attributable(reqId, code) ==
  reqId > 0 /\ reqId \in DOMAIN requests /\ code \notin InformationalCodes

\* BarFetcherWrapper.error(reqId, errorCode, errorString): original_error,
\* then mark_error on the request registered under reqId
BarFetcherError(reqId, code) ==
  /\ error_slot = "BarFetcherWrapper"
  /\ transport
  /\ wrapper_is_connected' =
       (wrapper_is_connected /\ ~BarFetcherWrapper_error(code))
  /\ connection_event' = (connection_event /\ ~BarFetcherWrapper_error(code))
  /\ lastCallback' = Callback("error", code)
  /\ requests' = IF Attributable(reqId, code)
                 THEN [requests EXCEPT ![reqId] = mark_error(@, code)]
                 ELSE requests
  /\ vendorFetch' =
       IF reqId \in DOMAIN vendorFetch /\ reqId \in DOMAIN requests
          /\ code \notin InformationalCodes
       THEN [vendorFetch EXCEPT ![reqId].attributed = code]
       ELSE vendorFetch
  /\ UNCHANGED << transport, handshakePending, should_stop, api_thread_alive,
                  monPc, pc, result, how, error_slot, disconnect_called >>
  /\ UNCHANGED << fetch, update_slot, ws_request_id_counter >>
  /\ UNCHANGED streamVars

\* StreamingManager.__init__ replaces wrapper.historicalDataUpdate
StreamingManagerInit ==
  /\ update_slot = "BarFetcherWrapper"
  /\ update_slot' = "StreamingManager"
  /\ UNCHANGED << requests, fetch, vendorFetch, ws_request_id_counter >>
  /\ UNCHANGED << streamVars, connVars >>

\* ------------------------------ TWSConnectionManager.get_next_request_id

\* the HTTP instance (client id 200, request ids from 1000)
get_next_request_id_http ==
  /\ request_id_counter < RequestIdStart + MaxAllocations
  /\ request_id_counter' = CounterAfter(request_id_counter)
  /\ UNCHANGED << subscriptions, callbacks, event_loop, reqHistCalls,
                  cancelCalls, calls_under_lock, vendorLive, loop, loopQueue, running,
                  active_connections, ua_invocations, connection_subscriptions, dictOrder,
                  chan, received, nextBar, granted, owed >>
  /\ UNCHANGED << connVars, fetchVars >>

\* the WebSocket instance (client id 201, request ids from 5000)
get_next_request_id_ws ==
  /\ ws_request_id_counter < WsRequestIdStart + MaxWsAllocations
  /\ ws_request_id_counter' = CounterAfter(ws_request_id_counter)
  /\ UNCHANGED << requests, fetch, vendorFetch, update_slot >>
  /\ UNCHANGED << streamVars, connVars >>

\* ======================================================================
\* Specifications
\* ======================================================================

InitStream ==
  /\ subscriptions = [x \in {} |-> x]
  /\ callbacks = {}
  /\ event_loop = FALSE
  /\ request_id_counter = RequestIdStart
  /\ reqHistCalls = [r \in ReqIds |-> 0]
  /\ cancelCalls = [r \in ReqIds |-> 0]
  /\ calls_under_lock = {}
  /\ vendorLive = {}
  /\ loop = Idle
  /\ loopQueue = << >>
  /\ running = {}
  /\ active_connections = {}
  /\ ua_invocations = [c \in Conns |-> 0]
  /\ connection_subscriptions = [x \in {} |-> x]
  /\ dictOrder = << >>
  /\ chan = [c \in Conns |-> "new"]
  /\ received = [c \in Conns |-> << >>]
  /\ nextBar = 1
  /\ granted = [x \in {} |-> x]
  /\ owed = {}

\* TWSConnectionManager.__init__
InitConn ==
  /\ transport = FALSE
  /\ wrapper_is_connected = FALSE
  /\ connection_event = FALSE
  /\ handshakePending = FALSE
  /\ should_stop = FALSE
  /\ api_thread_alive = FALSE
  /\ monPc = "none"
  /\ pc = [c \in Callers |-> "idle"]
  /\ result = [c \in Callers |-> "none"]
  /\ how = [c \in Callers |-> "none"]
  /\ error_slot = "TWSWrapper"
  /\ lastCallback = Callback("none", 0)
  /\ disconnect_called = FALSE

\* BarFetcher.__init__ and initialize_connections
InitBarFetcher ==
  /\ requests = [x \in {} |-> x]
  /\ fetch = [f \in Fetchers |-> IdleFetch]
  /\ vendorFetch = [x \in {} |-> x]
  /\ update_slot = "BarFetcherWrapper"
  /\ ws_request_id_counter = WsRequestIdStart

Init == InitStream /\ InitConn /\ InitBarFetcher

NextStream ==
  \/ \E c \in Conns : WsConnect(c)
  \/ \E c \in Conns : ClientGone(c)
  \/ \E c \in Conns : WsDisconnect(c)
  \/ \E c \in Conns : WsHandlerError(c)
  \/ \E c \in Conns, s \in Symbols, p \in Params : SubscribeReuse(c, s, p)
  \/ \E c \in Conns, s \in Symbols, p \in Params : SubscribeUnsupported(c, s, p)
  \/ \E c \in Conns, s \in Symbols, p \in Params : SubscribeRequest(c, s, p)
  \/ SubscribeInsert
  \/ \E c \in Conns, s \in Symbols : Unsubscribe(c, s)

NextDeliver ==
  \/ \E c \in Conns : WsConnect(c)
  \/ \E c \in Conns : ClientGone(c)
  \/ \E c \in Conns : WsDisconnect(c)
  \/ \E c \in Conns : WsHandlerError(c)
  \/ \E c \in Conns, s \in Symbols, p \in DeliverParams : SubscribeReuse(c, s, p)
  \/ \E c \in Conns, s \in Symbols, p \in DeliverParams : SubscribeRequest(c, s, p)
  \/ SubscribeInsert
  \/ \E c \in Conns, s \in Symbols : Unsubscribe(c, s)
  \/ \E r \in ReqIds : BarUpdateUnknown(r)
  \/ \E r \in ReqIds : BarUpdate(r)
  \/ StartTask
  \/ \E t \in running : ResumeTask(t)

NextConn ==
  \/ ConnectCall
  \/ \E c \in Callers : ConnectAlready(c)
  \/ \E c \in Callers : ConnectCleanup(c)
  \/ \E c \in Callers : ConnectProceed(c)
  \/ \E c \in Callers : ConnectOpen(c)
  \/ \E c \in Callers : ConnectRefused(c)
  \/ \E c \in Callers : ConnectRaises(c)
  \/ \E c \in Callers : ConnectConfirmed(c)
  \/ \E c \in Callers : ConnectTimeout(c)
  \/ Disconnect
  \/ MonitorWhile
  \/ MonitorHealthy
  \/ MonitorTeardown
  \/ MonitorAttempted
  \/ MonitorSleep
  \/ nextValidId
  \/ \E code \in ErrorCodes : error(code)
  \/ connectionClosed
  \/ ApiThreadExit
  \/ BarFetcherInit

\* the Subscription Manager: the life of subscriptions
SpecStream == Init /\ [][NextStream]_vars

\* the Subscription Manager and its socket adapter: the delivery of bars
SpecDeliver == Init /\ [][NextDeliver]_vars

\* the Connection Supervisor
SpecConn == Init /\ [][NextConn]_vars

\* the Connection Supervisor after a successful start-up, with an endpoint
\* that accepts every connection attempt and completes its handshake
InitRecover ==
  /\ InitStream
  /\ InitBarFetcher
  /\ transport = TRUE
  /\ wrapper_is_connected = TRUE
  /\ connection_event = TRUE
  /\ handshakePending = FALSE
  /\ should_stop = FALSE
  /\ api_thread_alive = TRUE
  /\ monPc = "while"
  /\ pc = [c \in Callers |-> IF c = "req" THEN "done" ELSE "idle"]
  /\ result = [c \in Callers |-> IF c = "req" THEN "true" ELSE "none"]
  /\ how = [c \in Callers |-> IF c = "req" THEN "handshake" ELSE "none"]
  /\ error_slot = "TWSWrapper"
  /\ lastCallback = Callback("nextValidId", 0)
  /\ disconnect_called = FALSE

\* an established session is lost: a session-loss code or connectionClosed
SessionLoss ==
  /\ IsConnected
  /\ \/ connectionClosed
     \/ \E code \in SessionLossCodes : error(code)

\* an error callback that does not concern the session
InfoError ==
  /\ transport
  /\ \E code \in ErrorCodes \ SessionLossCodes : error(code)

\* the steps of the _reconnect_loop thread, its connect() included
MonitorStep ==
  \/ MonitorWhile
  \/ MonitorHealthy
  \/ MonitorTeardown
  \/ ConnectProceed("mon")
  \/ ConnectOpen("mon")
  \/ ConnectConfirmed("mon")
  \/ MonitorAttempted
  \/ MonitorSleep

NextRecover ==
  \/ MonitorStep
  \/ nextValidId
  \/ SessionLoss
  \/ InfoError
  \/ ApiThreadExit
  \/ BarFetcherInit

\* The monitor thread and the API thread are scheduled by the operating
\* system and their sleeps are timed, so each keeps taking its steps.
SpecRecover ==
  /\ InitRecover
  /\ [][NextRecover]_vars
  /\ WF_vars(MonitorStep)
  /\ WF_vars(nextValidId)

\* lifespan has called initialize_connections and entered the connect() of
\* start-up
InitStartup ==
  /\ InitStream
  /\ InitBarFetcher
  /\ transport = FALSE
  /\ wrapper_is_connected = FALSE
  /\ connection_event = FALSE
  /\ handshakePending = FALSE
  /\ should_stop = FALSE
  /\ api_thread_alive = FALSE
  /\ monPc = "none"
  /\ pc = [c \in Callers |-> IF c = "req" THEN "check" ELSE "idle"]
  /\ result = [c \in Callers |-> "none"]
  /\ how = [c \in Callers |-> "none"]
  /\ error_slot = "TWSWrapper"
  /\ lastCallback = Callback("none", 0)
  /\ disconnect_called = FALSE

\* the steps of the connect() that lifespan calls at start-up
StartupStep ==
  \/ ConnectProceed("req")
  \/ ConnectOpen("req")
  \/ ConnectRefused("req")
  \/ ConnectRaises("req")
  \/ ConnectConfirmed("req")
  \/ ConnectTimeout("req")

NextStartup ==
  \/ StartupStep
  \/ MonitorStep
  \/ nextValidId
  \/ SessionLoss
  \/ InfoError
  \/ ApiThreadExit
  \/ BarFetcherInit

\* The server from its start-up connect() on, with no other caller of
\* connect() than the monitor. The threads are scheduled by the operating
\* system and the waits are timed, so each keeps taking its steps.
SpecStartup ==
  /\ InitStartup
  /\ [][NextStartup]_vars
  /\ WF_vars(StartupStep)
  /\ WF_vars(MonitorStep)
  /\ WF_vars(nextValidId)

\* The monitor's "if not self.is_connected():" and the client.disconnect()
\* that follows it are two statements of its thread: other threads run in
\* between.
MonitorNeedsReconnect ==
  /\ monPc = "tick"
  /\ ReconnectNeeded
  /\ monPc' = "teardown"
  /\ UNCHANGED << transport, wrapper_is_connected, connection_event,
                  handshakePending, should_stop, api_thread_alive, pc, result,
                  how, error_slot, lastCallback, disconnect_called,
                  streamVars, fetchVars >>

MonitorForcedDisconnect ==
  /\ monPc = "teardown"
  /\ transport' = FALSE
  /\ handshakePending' = FALSE
  /\ wrapper_is_connected' = FALSE
  /\ connection_event' = FALSE
  /\ lastCallback' = ClosedCallback
  /\ monPc' = "connect"
  /\ pc' = [pc EXCEPT !["mon"] = "check"]
  /\ UNCHANGED << should_stop, api_thread_alive, result, how, error_slot,
                  disconnect_called, streamVars, fetchVars >>

\* connect() called by a request handler while the monitor runs, with the
\* monitor's test and teardown as separate steps
NextRace ==
  \/ ConnectCall
  \/ \E c \in Callers : ConnectAlready(c)
  \/ \E c \in Callers : ConnectCleanup(c)
  \/ \E c \in Callers : ConnectProceed(c)
  \/ \E c \in Callers : ConnectOpen(c)
  \/ \E c \in Callers : ConnectConfirmed(c)
  \/ \E c \in Callers : ConnectTimeout(c)
  \/ MonitorWhile
  \/ MonitorHealthy
  \/ MonitorNeedsReconnect
  \/ MonitorForcedDisconnect
  \/ MonitorAttempted
  \/ MonitorSleep
  \/ nextValidId
  \/ SessionLoss
  \/ ApiThreadExit

SpecRace == InitRecover /\ [][NextRace]_vars

\* The transport of an established session closes (connectionClosed). The
\* vendor keeps streaming requests per session: those of the closed session
\* are gone, and nothing is called on StreamingManager.
SessionEnds ==
  /\ IsConnected
  /\ transport' = FALSE
  /\ handshakePending' = FALSE
  /\ wrapper_is_connected' = FALSE
  /\ connection_event' = FALSE
  /\ lastCallback' = Callback("connectionClosed", 0)
  /\ vendorLive' = {}
  /\ UNCHANGED << subscriptions, callbacks, event_loop, request_id_counter,
                  reqHistCalls, cancelCalls, calls_under_lock, loop, loopQueue,
                  running, active_connections, ua_invocations,
                  connection_subscriptions, dictOrder, chan, received,
                  nextBar, granted, owed >>
  /\ UNCHANGED << should_stop, api_thread_alive, monPc, pc, result, how,
                  error_slot, disconnect_called, fetchVars >>

\* one streaming client subscribing and unsubscribing on an established
\* session, which is lost and restored by the monitor
NextSession ==
  \/ WsConnect(1)
  \/ ClientGone(1)
  \/ WsDisconnect(1)
  \/ \E s \in Symbols, p \in DeliverParams : IsConnected /\ SubscribeReuse(1, s, p)
  \/ \E s \in Symbols, p \in DeliverParams : IsConnected /\ SubscribeRequest(1, s, p)
  \/ SubscribeInsert
  \/ \E s \in Symbols : Unsubscribe(1, s)
  \/ SessionEnds
  \/ MonitorStep
  \/ nextValidId
  \/ ApiThreadExit

SpecSession == InitRecover /\ [][NextSession]_vars

\* the server once BarFetcher is constructed
InitFetch ==
  /\ InitStream
  /\ InitBarFetcher
  /\ transport = FALSE
  /\ wrapper_is_connected = FALSE
  /\ connection_event = FALSE
  /\ handshakePending = FALSE
  /\ should_stop = FALSE
  /\ api_thread_alive = FALSE
  /\ monPc = "none"
  /\ pc = [c \in Callers |-> "idle"]
  /\ result = [c \in Callers |-> "none"]
  /\ how = [c \in Callers |-> "none"]
  /\ error_slot = "BarFetcherWrapper"
  /\ lastCallback = Callback("none", 0)
  /\ disconnect_called = FALSE

\* the request ids a vendor error callback may carry: -1 for none
ErrorIds == {-1} \cup IssuedIds

NextFetch ==
  \/ \E period \in FetchPeriods, forming \in BOOLEAN :
       RouteFetchBars(1, period, forming)
  \/ RouteConnected(1)
  \/ RouteConnectFailed(1)
  \/ FetchNotConnected(1)
  \/ FetchUnsupported(1)
  \/ FetchRegister(1)
  \/ FetchRequest(1)
  \/ FetchRequestRaises(1)
  \/ FetchReturn(1)
  \/ \E r \in ReqIds : historicalData(r)
  \/ \E r \in ReqIds : historicalDataEnd(r)
  \/ \E r \in ReqIds : historicalDataUpdate(r)
  \/ \E r \in ReqIds : StreamingHandlesFetchUpdate(r)
  \/ \E r \in ErrorIds, code \in FetchErrorCodes : BarFetcherError(r, code)
  \/ connectionClosed
  \/ StreamingManagerInit

\* the Bar Fetcher behind the /bars route: one caller after the other
SpecFetch == InitFetch /\ [][NextFetch]_vars

\* the timed wait of fetch_bars ends: the thread of the caller is scheduled
\* and request.wait(timeout) returns at the latest when the timeout elapses
SpecFetchLive ==
  /\ InitFetch
  /\ [][NextFetch]_vars
  /\ WF_vars(FetchReturn(1))

\* an established session with BarFetcher constructed
InitShare ==
  /\ InitStream
  /\ InitBarFetcher
  /\ transport = TRUE
  /\ wrapper_is_connected = TRUE
  /\ connection_event = TRUE
  /\ handshakePending = FALSE
  /\ should_stop = FALSE
  /\ api_thread_alive = TRUE
  /\ monPc = "none"
  /\ pc = [c \in Callers |-> IF c = "req" THEN "done" ELSE "idle"]
  /\ result = [c \in Callers |-> IF c = "req" THEN "true" ELSE "none"]
  /\ how = [c \in Callers |-> IF c = "req" THEN "handshake" ELSE "none"]
  /\ error_slot = "BarFetcherWrapper"
  /\ lastCallback = Callback("nextValidId", 0)
  /\ disconnect_called = FALSE

\* a request-level error and an informational code, both of which leave
\* the session as it is
RequestErrorCodes == {162, 2104}

\* concurrent callers of fetch_bars beside a streaming client, all taking
\* their request ids from the one session
NextShare ==
  \/ \E f \in Fetchers, forming \in BOOLEAN : RouteFetchBars(f, "5m", forming)
  \/ \E f \in Fetchers : FetchRegister(f)
  \/ \E f \in Fetchers : FetchRequest(f)
  \/ \E f \in Fetchers : FetchReturn(f)
  \/ \E r \in ReqIds : historicalDataEnd(r)
  \/ WsConnect(1)
  \/ \E p \in DeliverParams : SubscribeRequest(1, "X", p)
  \/ SubscribeInsert
  \/ Unsubscribe(1, "X")
  \/ \E r \in ErrorIds, code \in RequestErrorCodes : BarFetcherError(r, code)

SpecShare == InitShare /\ [][NextShare]_vars

\* concurrent callers of fetch_bars and the callbacks of the vendor thread
\* for their requests, on an established session
NextFrame ==
  \/ \E f \in Fetchers, forming \in BOOLEAN : RouteFetchBars(f, "5m", forming)
  \/ \E f \in Fetchers : FetchRegister(f)
  \/ \E f \in Fetchers : FetchRequest(f)
  \/ \E f \in Fetchers : FetchReturn(f)
  \/ \E r \in ReqIds : historicalData(r)
  \/ \E r \in ReqIds : historicalDataEnd(r)
  \/ \E r \in ReqIds : historicalDataUpdate(r)
  \/ \E r \in ErrorIds, code \in RequestErrorCodes : BarFetcherError(r, code)

SpecFrame == InitShare /\ [][NextFrame]_vars

\* The /bars route is a coroutine ("async def fetch_bars") that calls
\* connect() and BarFetcher.fetch_bars directly: from its first statement
\* to its return it runs on the event-loop thread without a suspension
\* point, request.wait(timeout) included, and the loop runs nothing else.
EventLoopFree == \A f \in Fetchers : fetch[f].pc \in {"idle", "done"}

\* the event loop takes up a /bars request
LoopFetchBars ==
  /\ loop = Idle
  /\ EventLoopFree
  /\ \E forming \in BOOLEAN : RouteFetchBars(1, "5m", forming)

\* the event loop runs a step of the socket adapter for client 1
LoopWsConnect == EventLoopFree /\ WsConnect(1)
LoopSubscribe ==
  EventLoopFree /\ \E p \in DeliverParams : SubscribeRequest(1, "X", p)
LoopSubscribeInsert == EventLoopFree /\ SubscribeInsert
LoopUnsubscribe == EventLoopFree /\ Unsubscribe(1, "X")

\* the event loop starts or resumes a broadcast
LoopStartTask == EventLoopFree /\ StartTask
LoopResumeTask == EventLoopFree /\ \E t \in running : ResumeTask(t)

\* one event loop serving the /bars route and a streaming client, and the
\* vendor thread making its callbacks
NextLoop ==
  \/ LoopFetchBars
  \/ FetchRegister(1)
  \/ FetchRequest(1)
  \/ FetchReturn(1)
  \/ \E r \in ReqIds : historicalData(r)
  \/ \E r \in ReqIds : historicalDataEnd(r)
  \/ LoopWsConnect
  \/ LoopSubscribe
  \/ LoopSubscribeInsert
  \/ LoopUnsubscribe
  \/ \E r \in ReqIds : BarUpdate(r)
  \/ LoopStartTask
  \/ LoopResumeTask

SpecLoop == InitShare /\ [][NextLoop]_vars

NextIds ==
  \/ get_next_request_id_http
  \/ get_next_request_id_ws

\* the request-id counters of the two instances of initialize_connections
SpecIds == Init /\ [][NextIds]_vars

\* ======================================================================
\* Properties
\* ======================================================================

\* the key a subscribe call was made with
GrantKey(g) == [period |-> g.period, session |-> g.session, what |-> g.what]

\* the connections holding a subscribe response for symbol s made with key p
Holders(s, p) ==
  {c \in Conns : /\ <<c, s>> \in DOMAIN granted
                 /\ GrantKey(granted[<<c, s>>]) = p}

\* the request ids of the table and of the subscribe under way
TableIds == {subscriptions[s].req_id : s \in DOMAIN subscriptions}
PendingIds == IF loop.kind = "subscribe" THEN {loop.req_id} ELSE {}

\* C1: the subscribers that subscribed to an instrument with an identical
\* key are all in the subscriber set of one Subscription, all hold its vendor
\* request id, and that id was used for exactly one vendor streaming
\* request, the only live one of the instrument.
C1_OneRequestForIdenticalKeys ==
  \A s \in Symbols, p \in Params :
    Holders(s, p) # {} =>
      /\ s \in DOMAIN subscriptions
      /\ Holders(s, p) \subseteq subscriptions[s].subscribers
      /\ \A c \in Holders(s, p) :
           granted[<<c, s>>].req_id = subscriptions[s].req_id
      /\ Cardinality({c \in Holders(s, p) : ~granted[<<c, s>>].existing}) <= 1
      /\ reqHistCalls[subscriptions[s].req_id] = 1
      /\ Cardinality({q \in vendorLive : q.symbol = s}) = 1

C1_Witness ==
  \E s \in DOMAIN subscriptions, p \in Params :
    /\ Holders(s, p) = Conns
    /\ subscriptions[s].subscribers = Conns
    /\ reqHistCalls[subscriptions[s].req_id] = 1

\* C2: no two live vendor streaming requests (issued and not cancelled
\* since) carry the same instrument, bar size, session filter and data kind.
C2_AtMostOneLivePerKey ==
  \A q1, q2 \in vendorLive :
    ( /\ q1.symbol = q2.symbol
      /\ q1.barSizeSetting = q2.barSizeSetting
      /\ q1.useRTH = q2.useRTH
      /\ q1.whatToShow = q2.whatToShow ) => q1.reqId = q2.reqId

C2_Witness ==
  /\ Cardinality(vendorLive) = 2
  /\ \E s \in DOMAIN subscriptions : Cardinality(subscriptions[s].subscribers) = 2

\* C3: a Subscription is in the table only while it has subscribers, and
\* its callback entry with it; a request id that left the table has been
\* cancelled exactly once and one still in use never; no request id is
\* used for two vendor requests, and no subscriber holds a cancelled id.
C3_RemovedCancelledOnceFreshId ==
  /\ \A s \in DOMAIN subscriptions : has_subscribers(subscriptions[s])
  /\ callbacks \subseteq DOMAIN subscriptions
  /\ \A r \in IssuedIds :
       cancelCalls[r] = IF r \in TableIds \cup PendingIds THEN 0 ELSE 1
  /\ \A r \in ReqIds : reqHistCalls[r] <= 1
  /\ \A k \in DOMAIN granted : cancelCalls[granted[k].req_id] = 0

C3_Witness ==
  \E r \in ReqIds, s \in DOMAIN subscriptions :
    /\ cancelCalls[r] = 1
    /\ subscriptions[s].req_id > r
    /\ <<1, s>> \in DOMAIN granted
    /\ ~granted[<<1, s>>].existing

\* C4: once the event loop has no broadcast scheduled or suspended, every
\* forming bar has reached every subscriber that was attached when it
\* arrived and has stayed attached.
C4_EveryUpdateDelivered ==
  (loopQueue = << >> /\ running = {}) => owed = {}

\* C5: a subscriber is attached only to a Subscription of the bar size,
\* session filter and data kind it subscribed with.
C5_AttachedOnlyToOwnKey ==
  \A k \in DOMAIN granted :
    k[2] \in DOMAIN subscriptions =>
      /\ subscriptions[k[2]].period = granted[k].period
      /\ subscriptions[k[2]].session = granted[k].session
      /\ subscriptions[k[2]].what = granted[k].what

\* C6: the health monitor keeps looping until disconnect() is called
\* explicitly: it has left its loop only if that call was made.
C6_MonitorNeverGivesUp ==
  monPc = "exited" => disconnect_called

\* the last vendor callback was a session-loss signal
LossSignalled ==
  \/ lastCallback.kind = "connectionClosed"
  \/ lastCallback.kind = "error" /\ lastCallback.code \in SessionLossCodes

\* C7: when the last vendor callback delivered is connectionClosed or an
\* error with code 502, 504, 1100 or 1300, the handshake state is cleared
\* and isConnected() is false, whichever function is installed as the
\* error callback.
C7_LossClearsHandshake ==
  LossSignalled => (~wrapper_is_connected /\ ~connection_event /\ ~IsConnected)

C7_Witness ==
  /\ error_slot = "BarFetcherWrapper"
  /\ lastCallback = Callback("error", 1300)
  /\ transport
  /\ how["req"] = "handshake"

\* C8: with the monitor running and an endpoint that accepts the reconnect,
\* a lost session is followed by isConnected() being true again; no caller
\* other than the monitor calls connect().
C8_MonitorRecovers ==
  (LossSignalled /\ ~IsConnected) ~> IsConnected

C8_Witness ==
  /\ how["mon"] = "handshake"
  /\ IsConnected
  /\ lastCallback.kind = "nextValidId"
  /\ monPc = "sleep"

\* C9: a connect() that finds the session fully connected returns success
\* and changes nothing: no transport operation, no thread start, no change
\* of the handshake state, the stop flag or the monitor.
C9_ConnectWhenConnectedIsNoOp ==
  [][ \A c \in Callers :
        (pc[c] = "check" /\ IsConnected /\ pc'[c] # "check") =>
          /\ pc'[c] = "done"
          /\ result'[c] = "true"
          /\ UNCHANGED << transport, wrapper_is_connected, connection_event,
                          handshakePending, should_stop, api_thread_alive,
                          monPc, error_slot, lastCallback, disconnect_called >>
    ]_vars

C9_Witness ==
  /\ how["req"] = "already"
  /\ pc["req"] = "check"
  /\ IsConnected

\* C10: connect() never raises; when the wait for the handshake times out
\* it returns false with the transport closed and the handshake state
\* cleared; after the wait it returns true exactly when the handshake
\* signal was observed.
C10_TimeoutTearsDown ==
  [][ \A c \in Callers :
        /\ result'[c] \in {"none", "true", "false"}
        /\ (pc[c] \in {"wait", "woken"} /\ pc'[c] = "done") =>
             /\ result'[c] = "true" <=> (pc[c] = "woken" \/ connection_event)
             /\ result'[c] = "false" =>
                  (~transport' /\ ~wrapper_is_connected' /\ ~connection_event')
        /\ (pc[c] = "open" /\ pc'[c] = "done") => result'[c] = "false"
    ]_vars

C10_Witness ==
  \E c \in Callers :
    /\ how[c] = "timeout"
    /\ result[c] = "false"
    /\ pc[c] = "done"
    /\ lastCallback.kind = "connectionClosed"

\* the callers inside fetch_bars that hold a request id
InFlight == {f \in Fetchers : fetch[f].pc \in {"registered", "wait"}}

\* the request ids something still refers to
ReferencedIds ==
  DOMAIN requests \cup {fetch[f].req_id : f \in InFlight}
    \cup TableIds \cup PendingIds

\* C11: request ids are handed out one at a time and in increasing order:
\* callers inside fetch_bars hold pairwise different ids, every registered
\* PendingFetch is the one of exactly one caller and is registered under
\* its own id, no id is held by a PendingFetch and a Subscription at once,
\* and every id referred to is below the counter, so the next id is new.
C11_RequestIdsUnique ==
  /\ \A f, g \in InFlight : f # g => fetch[f].req_id # fetch[g].req_id
  /\ \A r \in DOMAIN requests :
       /\ requests[r].req_id = r
       /\ Cardinality({f \in InFlight : fetch[f].req_id = r}) = 1
  /\ (DOMAIN requests \cup {fetch[f].req_id : f \in InFlight})
       \cap (TableIds \cup PendingIds) = {}
  /\ \A r \in ReferencedIds : r < request_id_counter

\* two callers wait on their requests at the same time
C11_Witness ==
  /\ InFlight = Fetchers
  /\ \A f \in Fetchers : fetch[f].pc = "wait"
  /\ Cardinality(DOMAIN requests) = MaxFetchers

\* the ids get_next_request_id has returned on each instance so far
HttpAllocated == RequestIdStart..(request_id_counter - 1)
WsAllocated == WsRequestIdStart..(ws_request_id_counter - 1)

\* C12: the two instances hand out disjoint request ids: no id returned by
\* get_next_request_id on the HTTP instance has been returned on the
\* WebSocket instance.
C12_DisjointRequestIds == HttpAllocated \cap WsAllocated = {}

\* a period the fetch bar_size_map does not hold
Unsupported(period) == fetch_bar_size_map(period) = ""

C14_UnsupportedNeverAttached ==
  \A k \in DOMAIN granted : bar_size_map(granted[k].period) # ""

\* C15: while the session is not connected no step issues a vendor request,
\* creates a Subscription or attaches a subscriber to one.
C15_NoSubscribeWhileDisconnected ==
  [][ ~IsConnected =>
        /\ reqHistCalls' = reqHistCalls
        /\ DOMAIN subscriptions' \subseteq DOMAIN subscriptions
        /\ \A s \in DOMAIN subscriptions' :
             subscriptions'[s].subscribers \subseteq subscriptions[s].subscribers
    ]_vars

\* C16: a failed fetch is answered with one of the four statuses 504
\* (Timeout), 400 (InvalidParameter), 503 (Unavailable), 500 (Failed), and
\* a fetch that failed because the session was down and connect() failed is
\* answered with 503.
C16_ReconnectFailureIsUnavailable ==
  \A f \in Fetchers :
    (fetch[f].pc = "done" /\ fetch[f].status # 200) =>
      /\ fetch[f].status \in {504, 400, 503, 500}
      /\ fetch[f].exc = "HTTPException" => fetch[f].status = 503

\* C17: a caller waiting in fetch_bars leaves it; when neither the data-end
\* callback nor an error held against its request has arrived, it leaves
\* with Timeout (status 504), and cancelHistoricalData was called for its
\* id once more if include_forming is set and not otherwise.
C17_FetchAlwaysReturns ==
  /\ \A f \in Fetchers : (fetch[f].pc = "wait") ~> (fetch[f].pc = "done")
  /\ [][ \A f \in Fetchers :
          ( /\ fetch[f].pc = "wait" /\ fetch'[f].pc # "wait"
            /\ ~vendorFetch[fetch[f].req_id].ended
            /\ vendorFetch[fetch[f].req_id].attributed = 0 ) =>
            /\ fetch'[f].pc = "done"
            /\ fetch'[f].exc = "TimeoutError"
            /\ fetch'[f].status = 504
            /\ cancelCalls'[fetch[f].req_id] =
                 cancelCalls[fetch[f].req_id]
                   + (IF fetch[f].include_forming THEN 1 ELSE 0)
     ]_vars

\* a fetch with include_forming timed out and its request was cancelled
C17_Witness ==
  \E f \in Fetchers :
    /\ fetch[f].pc = "done"
    /\ fetch[f].exc = "TimeoutError"
    /\ fetch[f].include_forming
    /\ cancelCalls[fetch[f].req_id] = 1
    /\ ~vendorFetch[fetch[f].req_id].ended

C20_ReturnsDeliveredBars ==
  \A f \in Fetchers :
    (fetch[f].pc = "done" /\ fetch[f].status = 200
       /\ ~fetch[f].include_forming) =>
      /\ vendorFetch[fetch[f].req_id].ended
      /\ fetch[f].bars = vendorFetch[fetch[f].req_id].delivered

\* a fetch without include_forming returned both bars delivered to it, a
\* forming-bar callback for its id having arrived meanwhile
C20_Witness ==
  \E f \in Fetchers :
    /\ fetch[f].pc = "done"
    /\ fetch[f].status = 200
    /\ ~fetch[f].include_forming
    /\ vendorFetch[fetch[f].req_id].updates > 0
    /\ Len(fetch[f].bars) = MaxBars

\* C21: a forming-bar callback for the id of a registered request with
\* include_forming set and at least one bar replaces the last bar by the
\* bar it carries: the length and the bars before the last stay, so after
\* K callbacks the sequence ends with the K-th forming bar.
C21_FormingReplacesTail ==
  [][ \A r \in DOMAIN vendorFetch \cap DOMAIN requests :
        ( /\ requests[r].include_forming
          /\ requests[r].bars # << >>
          /\ r \in DOMAIN vendorFetch'
          /\ vendorFetch'[r].updates = vendorFetch[r].updates + 1 ) =>
          /\ r \in DOMAIN requests'
          /\ Len(requests'[r].bars) = Len(requests[r].bars)
          /\ requests'[r].bars[Len(requests[r].bars)] =
               FormingBar(vendorFetch'[r].updates)
          /\ \A i \in 1..(Len(requests[r].bars) - 1) :
               requests'[r].bars[i] = requests[r].bars[i]
    ]_vars

\* C22: a fetch with include_forming that received MaxBars complete bars,
\* the data-end callback and then MaxUpdates forming-bar callbacks before
\* its cleanup returns MaxBars + 1 bars: the complete bars followed by the
\* last forming bar.
C22_FormingFetchReturnsOneMore ==
  \A f \in Fetchers :
    ( /\ fetch[f].pc = "done" /\ fetch[f].status = 200
      /\ fetch[f].include_forming
      /\ Len(vendorFetch[fetch[f].req_id].delivered) = MaxBars
      /\ vendorFetch[fetch[f].req_id].updates = MaxUpdates ) =>
      /\ Len(fetch[f].bars) = MaxBars + 1
      /\ SubSeq(fetch[f].bars, 1, MaxBars) =
           vendorFetch[fetch[f].req_id].delivered
      /\ fetch[f].bars[MaxBars + 1] = FormingBar(MaxUpdates)

\* C23: unsubscribe of an instrument without a Subscription answers
\* "not_found" and changes neither the table, the callbacks nor the vendor's
\* requests; with one, it answers "cancelled" exactly when the subscriber set
\* became empty, the entry left the table and its request was cancelled once,
\* and "unsubscribed" exactly when the entry stays with subscribers left.
C23_UnsubscribeStatus ==
  [][\A c \in Conns, s \in Symbols :
       Unsubscribe(c, s) =>
         LET status == unsubscribe_status(s, c)
         IN IF s \notin DOMAIN subscriptions
            THEN /\ status = "not_found"
                 /\ UNCHANGED << subscriptions, callbacks, cancelCalls,
                                 reqHistCalls, vendorLive, request_id_counter >>
            ELSE LET r == subscriptions[s].req_id
                 IN /\ status \in {"cancelled", "unsubscribed"}
                    /\ (status = "cancelled") <=>
                         /\ subscriptions[s].subscribers \ {c} = {}
                         /\ s \notin DOMAIN subscriptions'
                         /\ s \notin callbacks'
                         /\ cancelCalls'[r] = cancelCalls[r] + 1
                         /\ \A q \in vendorLive' : q.reqId # r
                    /\ (status = "unsubscribed") <=>
                         /\ s \in DOMAIN subscriptions'
                         /\ subscriptions'[s].subscribers # {}
                         /\ subscriptions'[s].subscribers =
                              subscriptions[s].subscribers \ {c}
                         /\ cancelCalls' = cancelCalls
                         /\ vendorLive' = vendorLive
                    /\ \A x \in DOMAIN subscriptions \ {s} :
                         /\ x \in DOMAIN subscriptions'
                         /\ subscriptions'[x] = subscriptions[x]
       ]_vars

\* the only connection there has been is open and detached from everything,
\* one Subscription is left without it and one request has been cancelled:
\* its unsubscribe calls have answered "cancelled"
C23_Witness ==
  /\ chan[1] = "open"
  /\ chan[2] = "new"
  /\ connection_subscriptions[1] = {}
  /\ subscriptions = [x \in {} |-> x]
  /\ \E r \in ReqIds : cancelCalls[r] = 1

\* C24: unsubscribe_all of a connection, which disconnect runs for an
\* active connection, takes the connection out of every Subscription that
\* holds it, cancels with one vendor call each exactly the Subscriptions
\* left empty and deletes them, reports the instruments it detached and
\* those it cancelled, and leaves every other Subscription as it was; the
\* connection is in no subscriber set afterwards.
C24_UnsubscribeAllDetachesEverywhere ==
  [][\A c \in Conns :
       (c \in active_connections /\ c \notin active_connections') =>
         /\ \A s \in DOMAIN subscriptions :
              LET sub == subscriptions[s]
              IN IF c \notin sub.subscribers
                 THEN /\ s \notin ua_unsubscribed(c)
                      /\ s \in DOMAIN subscriptions'
                      /\ subscriptions'[s] = sub
                      /\ cancelCalls'[sub.req_id] = cancelCalls[sub.req_id]
                 ELSE /\ s \in ua_unsubscribed(c)
                      /\ IF sub.subscribers = {c}
                         THEN /\ s \in ua_cancelled(c)
                              /\ s \notin DOMAIN subscriptions'
                              /\ s \notin callbacks'
                              /\ cancelCalls'[sub.req_id] =
                                   cancelCalls[sub.req_id] + 1
                         ELSE /\ s \notin ua_cancelled(c)
                              /\ s \in DOMAIN subscriptions'
                              /\ subscriptions'[s].subscribers =
                                   sub.subscribers \ {c}
                              /\ cancelCalls'[sub.req_id] =
                                   cancelCalls[sub.req_id]
         /\ ua_cancelled(c) \subseteq ua_unsubscribed(c)
         /\ DOMAIN subscriptions' = DOMAIN subscriptions \ ua_cancelled(c)
         /\ \A r \in ReqIds :
              cancelCalls'[r] # cancelCalls[r] =>
                \E s \in ua_cancelled(c) : subscriptions[s].req_id = r
         /\ \A s \in DOMAIN subscriptions' :
              c \notin subscriptions'[s].subscribers
       ]_vars

\* connection 1 has been disconnected while it shared one Subscription with
\* connection 2 and held another alone: the shared one is left to 2, the
\* other is gone and cancelled
C24_Witness ==
  /\ chan[1] = "closed"
  /\ chan[2] = "open"
  /\ connection_subscriptions[2] # {}
  /\ DOMAIN subscriptions = connection_subscriptions[2]
  /\ \A s \in DOMAIN subscriptions : subscriptions[s].subscribers = {2}
  /\ \E r \in ReqIds : cancelCalls[r] = 1
  /\ Cardinality(IssuedIds) = 2

\* C25: a step of a broadcast (the event loop starts or resumes a delivery
\* coroutine), whether its send succeeds or fails on a channel that is
\* gone, removes no subscriber from a Subscription and cancels no stream.
C25_FailedDeliveryKeepsSubscriber ==
  [][(StartTask \/ \E t \in running : ResumeTask(t)) =>
       /\ \A s \in DOMAIN subscriptions :
            /\ s \in DOMAIN subscriptions'
            /\ subscriptions'[s].subscribers = subscriptions[s].subscribers
       /\ cancelCalls' = cancelCalls
       /\ vendorLive' = vendorLive
    ]_vars

\* C26: unsubscribe_all is never run twice for a connection id and never
\* while the client is still connected and its handler in its message
\* loop; once the handler has left (after a disconnect it saw, an error of
\* its own, or after a failed send had already disconnected the
\* connection) it has been run exactly once.
C26_UnsubscribeAllExactlyOnce ==
  \A c \in Conns :
    /\ ua_invocations[c] <= 1
    /\ chan[c] \in {"new", "open"} => ua_invocations[c] = 0
    /\ chan[c] = "closed" => ua_invocations[c] = 1
    /\ ua_invocations[c] = 1 => c \notin active_connections

\* one connection was disconnected by a failed send and its handler has
\* left since; the other has just been disconnected by a failed send, its
\* handler still waiting in receive
C26_Witness ==
  /\ chan[1] = "closed" /\ ua_invocations[1] = 1
  /\ chan[2] = "dead" /\ ua_invocations[2] = 1

\* C27: after the connect() of start-up has returned failure, and without
\* any further call of connect() by a request, the session is eventually
\* connected.
C27_StartupFailureRetried ==
  (pc["req"] = "done" /\ result["req"] = "false") ~> IsConnected

\* C28: a bar, data-end, forming-bar or error callback with request id r
\* neither adds nor removes a registered request and leaves every request
\* registered under another id as it was; with none registered under r it
\* leaves them all as they were.
C28_CallbackTouchesOnlyItsRequest ==
  [][\A r \in ReqIds \cup {-1} :
       ( \/ historicalData(r)
         \/ historicalDataEnd(r)
         \/ historicalDataUpdate(r)
         \/ \E code \in RequestErrorCodes : BarFetcherError(r, code) ) =>
         /\ DOMAIN requests' = DOMAIN requests
         /\ \A q \in DOMAIN requests \ {r} : requests'[q] = requests[q]
         /\ r \notin DOMAIN requests => requests' = requests
    ]_vars

\* two fetches are in flight: one has its two bars and its data-end, the
\* other has no bar and a vendor error
C28_Witness ==
  \E r1, r2 \in DOMAIN requests :
    /\ r1 # r2
    /\ requests[r1].bars = << 1, 2 >>
    /\ requests[r1].is_complete
    /\ requests[r1].error = 0
    /\ requests[r2].bars = << >>
    /\ requests[r2].error = 162

\* C29: while a fetch is blocked in its wait, the event loop can run a
\* scheduled broadcast of a forming bar to the subscribers, and can serve
\* the unsubscribe of a connected client.
C29_FetchStallLeavesStreamingServed ==
  fetch[1].pc = "wait" =>
    /\ (loop = Idle /\ loopQueue # << >>) => ENABLED LoopStartTask
    /\ (loop = Idle /\ 1 \in active_connections /\ chan[1] = "open") =>
         ENABLED LoopUnsubscribe

\* C30: a forming-bar callback on the vendor thread for the request id of a
\* Subscription writes last_bar and the update counter of that Subscription
\* and appends at most one delivery to the event loop's queue, exactly when
\* a callback is registered and the loop is known; it delivers nothing
\* itself, touches no connection and no running broadcast, and it can be
\* made whatever deliveries are still queued or suspended.
C30_WorkerOnlyEnqueues ==
  [][\A r \in ReqIds :
       /\ (nextBar <= MaxUpdates /\ r \in IssuedIds /\ FindByReqId(r) # {}) =>
            ENABLED BarUpdate(r)
       /\ BarUpdate(r) =>
            /\ received' = received
            /\ running' = running
            /\ chan' = chan
            /\ active_connections' = active_connections
            /\ connection_subscriptions' = connection_subscriptions
            /\ callbacks' = callbacks
            /\ DOMAIN subscriptions' = DOMAIN subscriptions
            /\ \E s \in FindByReqId(r) :
                 /\ subscriptions'[s] =
                      [subscriptions[s] EXCEPT !.last_bar = nextBar,
                                               !.update_count = @ + 1]
                 /\ \A x \in DOMAIN subscriptions \ {s} :
                      subscriptions'[x] = subscriptions[x]
                 /\ loopQueue' =
                      IF s \in callbacks /\ event_loop
                      THEN Append(loopQueue, [sym |-> s, bar |-> nextBar])
                      ELSE loopQueue
    ]_vars

\* the vendor thread has handed over its second forming bar while the
\* first is still waiting in the event loop's queue and no subscriber has
\* received anything
C30_Witness ==
  /\ Len(loopQueue) = 2
  /\ running = {}
  /\ \A c \in Conns : received[c] = << >>
  /\ \E s \in DOMAIN subscriptions :
       /\ subscriptions[s].update_count = 2
       /\ subscriptions[s].subscribers # {}

\* C31: the bar updates a subscriber has received for an instrument are in
\* the order in which the vendor thread handed them over (bars are numbered
\* in that order): a later bar is never received before an earlier one.
C31_DeliveredInWorkerOrder ==
  \A c \in Conns :
    \A i, j \in 1..Len(received[c]) :
      (i < j /\ received[c][i][1] = received[c][j][1]) =>
        received[c][i][2] < received[c][j][2]

\* C32: no call of the vendor client (request or cancellation) and no
\* scheduling of a delivery has been made with a lock held.
C32_NoLockAcrossVendorCalls == calls_under_lock = {}

\* C33: an error callback with a code that is neither informational nor a
\* session loss, for the request id of a Subscription in the table, does
\* something about that Subscription: it leaves the table, or its record
\* changes, or a notification is scheduled for its subscribers.
C33_StreamErrorAttributed ==
  [][\A r \in ReqIds, code \in RequestErrorCodes \ InformationalCodes :
       (BarFetcherError(r, code) /\ FindByReqId(r) # {}) =>
         \A s \in FindByReqId(r) :
           \/ s \notin DOMAIN subscriptions'
           \/ subscriptions'[s] # subscriptions[s]
           \/ loopQueue' # loopQueue
    ]_vars

\* C34: an error callback with a code that the connection-level handler
\* treats as informational, whatever request id it carries, leaves the
\* handshake state and every pending fetch as they were, and the
\* fetch-level handler treats the same codes as informational.
C34_InformationalChangesNothing ==
  [][\A r \in ReqIds \cup {-1}, code \in FetchErrorCodes :
       (TWSWrapper_informational(code) /\ BarFetcherError(r, code)) =>
         /\ code \in InformationalCodes
         /\ wrapper_is_connected' = wrapper_is_connected
         /\ connection_event' = connection_event
         /\ requests' = requests
    ]_vars

\* C35: when connect() returns success after the handshake, the monitor
\* thread exists and the condition of its loop holds, so that it keeps
\* running: it has not left its loop and the stop flag is not set.
C35_SuccessStartsLastingMonitor ==
  [][\A c \in Callers :
       ConnectConfirmed(c) =>
         /\ monPc' \notin {"none", "exited"}
         /\ ~should_stop'
    ]_vars

\* C36: a teardown by one caller of connect() (the cleanup at its start,
\* the disconnect after its timeout, the monitor's forced disconnect) is
\* never made on a session that is connected and that the other caller's
\* connect() has returned as connected.
C36_TeardownSparesConnectedSession ==
  [][\A c \in Callers :
       ( \/ ConnectCleanup(c)
         \/ ConnectTimeout(c)
         \/ (c = "mon" /\ MonitorForcedDisconnect) ) =>
         ~( /\ IsConnected
            /\ \E d \in Callers \ {c} :
                 /\ pc[d] = "done"
                 /\ result[d] = "true"
                 /\ how[d] = "handshake" )
    ]_vars

\* C37: between two operations and while the session is connected, the
\* request ids of the Subscription table are exactly the ids of the vendor
\* streaming requests live on the current session.
C37_TableIsLiveRequests ==
  (IsConnected /\ loop = Idle) => TableIds = {q.reqId : q \in vendorLive}

\* C38: in every state reached by subscribe, unsubscribe and
\* unsubscribe_all, each Subscription of the table has at least one
\* subscriber and each key of the callback table is a key of the
\* Subscription table.
C38_NoEmptySubscriptionNoOrphanCallback ==
  /\ \A s \in DOMAIN subscriptions : subscriptions[s].subscribers # {}
  /\ \A s \in callbacks : s \in DOMAIN subscriptions

\* unsubscribe_all has removed the only subscriber of one Subscription,
\* unsubscribe has removed one of the two subscribers of another
C38_Witness ==
  \E c \in Conns, d \in Conns, s \in DOMAIN subscriptions, r \in ReqIds :
    /\ c # d
    /\ ua_invocations[c] = 1
    /\ cancelCalls[r] = 1
    /\ subscriptions[s].req_id # r
    /\ subscriptions[s].subscribers = {d}
    /\ s \in callbacks
    /\ reqHistCalls[subscriptions[s].req_id] = 1

\* C39: a forming-bar callback is dropped as unknown only for a request id
\* that is not live at the vendor: every live streaming request has its
\* Subscription in the table from the moment its vendor call is made.
C39_NoLiveCallbackDropped ==
  [][\A r \in ReqIds :
       BarUpdateUnknown(r) => r \notin {q.reqId : q \in vendorLive}
    ]_vars

\* C40: subscribe and fetch accept the same bar-size codes with the same
\* vendor token: a code subscribe rejects is one the fetch map does not
\* hold, and a code subscribe sends to the vendor is sent with the token
\* the fetch map gives it.
C40_SameBarSizeCodes ==
  [][\A c \in Conns, s \in Symbols, p \in Params :
       /\ SubscribeUnsupported(c, s, p) => fetch_bar_size_map(p.period) = ""
       /\ SubscribeRequest(c, s, p) =>
            /\ fetch_bar_size_map(p.period) # ""
            /\ \E q \in vendorLive' :
                 /\ q.reqId = request_id_counter
                 /\ q.barSizeSetting = fetch_bar_size_map(p.period)
    ]_vars

====
